---------------------------- MODULE Spec2Model ----------------------------
(***************************************************************************)
(* A model of the folding accumulator and of the commit / challenge /      *)
(* evaluate / open protocol of proof-systems:                              *)
(*   optimism/src/keccak/proof.rs   fold, prove, verify                    *)
(*   msm/src/prover.rs              prove                                  *)
(* The scalar field is a prime field of small order, a group element is    *)
(* written by its discrete logarithm, and a sponge is written by the       *)
(* transcript it has seen (its challenges are a hash of that transcript).  *)
(***************************************************************************)
EXTENDS Integers, Sequences, FiniteSets, TLC

VARIABLES
    srs,          \* the commitment setup shared by fold, prove and verify
    accumulator,  \* KeccakProofInputs.evaluations of the folding session
    acc0,         \* history: the accumulator the session started from
    folded,       \* history: one record per fold call that has returned
    call,         \* the fold call in progress: its locals and position
    prv,          \* the prove call: its locals and position
    vrf,          \* the verify call: its locals and position
    proved,       \* history: the locals of the prove call that returned last
    env,          \* the SimpleEvalEnv of the expression evaluator
    ev,           \* the evaluator call: its expression and what it returned
    trace,        \* the MIPSTrace of the tracer
    traced,       \* history: the tracer call that returned last
    ff            \* the call of a foreign field multiplication test helper

vars ==
    <<srs, accumulator, acc0, folded, call, prv, vrf, proved, env, ev, trace,
      traced, ff>>

---------------------------------------------------------------------------
(* Bounds of the model.                                                    *)

\* Witness cells and the cells of a session's first accumulator are drawn
\* from 0..MaxVal.
MaxVal == 1

\* The number of fold calls of one session.
MaxFolds == 2

\* The number of fold calls of a session whose calls run step by step.
MaxStepFolds == 1

---------------------------------------------------------------------------
(* The scalar field G::ScalarField and the evaluation domain domain.d1.    *)

\* The order of the scalar field: a small prime stands for the curve's.
FieldModulus == 7

\* crate::DOMAIN_SIZE, the number of rows of a column (1 << 15 in the crate).
DOMAIN_SIZE == 2

Field == 0..(FieldModulus - 1)

Rows == 1..DOMAIN_SIZE

FAdd(a, b) == (a + b) % FieldModulus

FSub(a, b) == (a + FieldModulus - (b % FieldModulus)) % FieldModulus

FMul(a, b) == (a * b) % FieldModulus

RECURSIVE FPow(_, _)
FPow(a, k) == IF k = 0 THEN 1 ELSE FMul(a, FPow(a, k - 1))

FInv(a) == FPow(a, FieldModulus - 2)

\* The sum in the field of the first k entries of s.
RECURSIVE FSum(_, _)
FSum(s, k) == IF k = 0 THEN 0 ELSE FAdd(FSum(s, k - 1), s[k])

\* domain.d1.group_gen: a generator of the subgroup of order DOMAIN_SIZE.
Omega ==
    CHOOSE w \in 1..(FieldModulus - 1) :
        /\ FPow(w, DOMAIN_SIZE) = 1
        /\ \A k \in 1..(DOMAIN_SIZE - 1) : FPow(w, k) # 1

\* Evaluations::from_vec_and_domain(evals, domain.d1).interpolate(): the
\* coefficients (lowest first) of the polynomial of degree < DOMAIN_SIZE that
\* takes the value evals[i] at Omega^(i-1).
Interpolate(evals) ==
    [k \in Rows |->
        FMul(FInv(DOMAIN_SIZE % FieldModulus),
             FSum([i \in Rows |->
                      FMul(evals[i],
                           FPow(FInv(Omega), ((i - 1) * (k - 1)) % DOMAIN_SIZE))],
                  DOMAIN_SIZE))]

\* poly.evaluate(point)
Evaluate(poly, point) ==
    FSum([k \in 1..Len(poly) |-> FMul(poly[k], FPow(point, k - 1))], Len(poly))

---------------------------------------------------------------------------
(* The commitment scheme (poly_commitment).                                *)

\* The trusted setup's secrets the model starts from.
ToxicWaste == {2, 3}

\* srs.commit_non_hiding(poly, 1, None): sum of coeff[k] * g[k].
CommitNonHiding(s, poly) ==
    FSum([k \in 1..Len(poly) |-> FMul(poly[k], s.g[k])], Len(poly))

\* PairingSRS::create(x, DOMAIN_SIZE) and add_lagrange_basis(domain.d1):
\* g[k] = x^(k-1) G, and the commitments to the Lagrange polynomials.
SrsCreate(x) ==
    LET g == [k \in Rows |-> FPow(x, k - 1)]
    IN  [g |-> g,
         lagrange |-> [i \in Rows |->
             CommitNonHiding([g |-> g],
                             Interpolate([j \in Rows |-> IF j = i THEN 1 ELSE 0]))]]

\* srs.commit_evaluations_non_hiding(domain.d1, evals): sum of
\* evals[i] * lagrange[i], over the rows both have.
CommitEvaluationsNonHiding(s, evals) ==
    LET n == IF Len(evals) < DOMAIN_SIZE THEN Len(evals) ELSE DOMAIN_SIZE
    IN  FSum([i \in 1..n |-> FMul(evals[i], s.lagrange[i])], n)

---------------------------------------------------------------------------
(* The Fiat-Shamir sponges (mina_poseidon).  A sponge is the sequence of   *)
(* what it was built with, absorbed and squeezed.                          *)

\* EFqSponge::new(G::other_curve_sponge_params())
FqSpongeNew == <<[op |-> "new", x |-> 1]>>

\* EFrSponge::new(G::sponge_params())
FrSpongeNew == <<[op |-> "new", x |-> 2]>>

\* absorb_commitment(&mut sponge, &c) and fr_sponge.absorb(&x)
Absorb(sponge, x) == Append(sponge, [op |-> "absorb", x |-> x])

\* The sponge after challenge() or digest() has squeezed it.
Squeezed(sponge) == Append(sponge, [op |-> "squeeze", x |-> 0])

\* The permutation's state after the transcript: each step is a bijection of
\* the state, so changing one absorbed element changes every later state.
RECURSIVE SpongeState(_)
SpongeState(sponge) ==
    IF Len(sponge) = 0 THEN 0
    ELSE LET h == SpongeState(SubSeq(sponge, 1, Len(sponge) - 1))
             e == sponge[Len(sponge)]
         IN  CASE e.op = "new"     -> e.x
               [] e.op = "absorb"  -> (3 * h + e.x + 1) % FieldModulus
               [] e.op = "squeeze" -> (5 * h + 1) % FieldModulus

\* sponge.challenge() and sponge.digest(): the value squeezed.
Challenge(sponge) == SpongeState(Squeezed(sponge))

\* G::endos().1
EndoR == 2

\* ScalarChallenge(c).to_field(endo_r)
ToField(c) == (EndoR * c + 1) % FieldModulus

---------------------------------------------------------------------------
(* KeccakColumns and KeccakProofInputs.                                    *)

\* The columns of KeccakColumns in the order into_iter() yields them; two of
\* them stand for the whole struct: one that defaults to zero, and two_to_pad.
KeccakColumnOrder == <<"hash_index", "two_to_pad">>

KeccakColumnSet == {KeccakColumnOrder[k] : k \in 1..Len(KeccakColumnOrder)}

\* A default() that would zero two_to_pad like the other columns.
KeccakDefaultAllZero ==
    [c \in KeccakColumnSet |-> [i \in Rows |-> 0]]

\* KeccakProofInputs::default(): every column zero in every row, two_to_pad one.
KeccakDefault ==
    [c \in KeccakColumnSet |->
        [i \in Rows |-> IF c = "two_to_pad" THEN 1 ELSE 0]]

\* The batch holding v in every row of every column.
ConstantBatch(v) == [c \in KeccakColumnSet |-> [i \in Rows |-> v]]

\* The values of the cells of a batch.
BatchValues == {0, 1}

\* The batches a caller hands to fold: every batch over BatchValues, and the
\* batch of twos.
Batches == [KeccakColumnSet -> [Rows -> BatchValues]] \cup {ConstantBatch(2)}

\* The accumulators a session starts from.
InitialAccumulators ==
    {KeccakDefault} \cup {ConstantBatch(v) : v \in 0..MaxVal}
        \cup {[c \in KeccakColumnSet |-> [i \in Rows |-> i % (MaxVal + 1)]]}

---------------------------------------------------------------------------
(* The opening proof (poly_commitment::OpenProof): an opening proves the   *)
(* statement it was made for, and no other.                                *)

\* The values the opening-proof step draws from its random number generator.
Nonces == {0, 1}

\* OpenProof::open(srs, group_map, polynomials, points, v, u, sponge, rng)
Open(s, polynomials, points, polyscale, evalscale, sponge, nonce) ==
    [polynomials |-> polynomials, points |-> points, polyscale |-> polyscale,
     evalscale |-> evalscale, sponge |-> sponge, nonce |-> nonce]

\* combined_inner_product(points, v, u, es, srs_length): the sum over the
\* polynomials j of v^(j-1) times the sum over the points k of u^(k-1) times
\* the evaluation of polynomial j at point k.
CombinedInnerProduct(points, polyscale, evalscale, es) ==
    FSum([j \in 1..Len(es) |->
             FMul(FPow(polyscale, j - 1),
                  FSum([k \in 1..Len(points) |->
                           FMul(FPow(evalscale, k - 1), es[j][k][1])],
                       Len(points)))],
         Len(es))

\* OpeningProof::verify(srs, group_map, &mut [batch], rng): the opening is
\* one that open returns, it was made from this sponge, for these points and
\* scalars, and its polynomials have the batch's commitments and evaluations.
VerifyOpening(s, batch) ==
    LET o == batch.opening
    IN  /\ o.nonce \in Nonces
        /\ o.sponge = batch.sponge
        /\ o.points = batch.evaluation_points
        /\ o.polyscale = batch.polyscale
        /\ o.evalscale = batch.evalscale
        /\ Len(o.polynomials) = Len(batch.evaluations)
        /\ \A j \in 1..Len(o.polynomials) :
              /\ batch.evaluations[j].commitment =
                     CommitNonHiding(s, o.polynomials[j])
              /\ batch.evaluations[j].evaluations =
                     [k \in 1..Len(o.points) |->
                         <<Evaluate(o.polynomials[j], o.points[k])>>]
        /\ batch.combined_inner_product =
               CombinedInnerProduct(
                   o.points, o.polyscale, o.evalscale,
                   [j \in 1..Len(o.polynomials) |->
                       [k \in 1..Len(o.points) |->
                           <<Evaluate(o.polynomials[j], o.points[k])>>]])

---------------------------------------------------------------------------
(* The circuits and their witnesses.                                       *)

\* WitnessColumns { x }: the columns of the MSM witness, two of them.
MsmColumnOrder == <<"x0", "x1">>

Circuits == {"keccak", "msm"}

\* The named columns of a circuit in declared order.
ColumnOrder(circuit) ==
    IF circuit = "keccak" THEN KeccakColumnOrder ELSE MsmColumnOrder

ColumnSet(circuit) ==
    {ColumnOrder(circuit)[k] : k \in 1..Len(ColumnOrder(circuit))}

\* The witnesses a caller hands to prove: columns of DOMAIN_SIZE rows.
Witnesses(circuit) == [ColumnSet(circuit) -> [Rows -> 0..MaxVal]]

\* The locals of a prove call that is not running.
NoProve ==
    [pc |-> 0, circuit |-> "none", evaluations |-> <<>>, polys |-> <<>>,
     commitments |-> <<>>, fq_sponge |-> <<>>, absorbed |-> 0,
     zeta |-> -1, zeta_omega |-> -1,
     zeta_evaluations |-> <<>>, zeta_omega_evaluations |-> <<>>,
     fq_sponge_before_evaluations |-> <<>>, fr_sponge |-> <<>>,
     absorbed_evaluations |-> 0, v |-> -1, u |-> -1,
     opening_proof |-> <<>>, proof |-> <<>>]

\* The locals of a verify call that is not running.
NoVerify ==
    [pc |-> 0, proof |-> <<>>, fq_sponge |-> <<>>, absorbed |-> 0,
     zeta |-> -1, zeta_omega |-> -1,
     fq_sponge_before_evaluations |-> <<>>, fr_sponge |-> <<>>,
     es |-> <<>>, evaluations |-> <<>>,
     absorbed_evaluations |-> 0, v |-> -1, u |-> -1,
     batch |-> <<>>, result |-> FALSE]

\* An environment with no column, no alpha and zero scalars: what the
\* variables of the evaluator hold when no evaluator is under study.
NoEnv ==
    [witness |-> <<>>, extended |-> <<>>, alphas |-> <<>>,
     challenges |-> <<0, 0, 0>>, error_vec |-> <<>>, u |-> 0]

\* The evaluator call that has not been made.
NoEval == [entry |-> "none", exp |-> <<>>, result |-> <<>>]

\* No tracer, no tracer call and no call of a test helper.
NoTrace == [domain_size |-> 0, witness |-> <<>>]

NoTraced == [op |-> "none", step |-> "none", row |-> <<>>, before |-> <<>>,
             returned |-> 0]

NoFf == [op |-> "none", input |-> <<>>, output |-> <<>>]

---------------------------------------------------------------------------
(* fold                                                                    *)

\* Commitments that would all be made to the first new column.
FoldCommitmentsFirstColumn(s, inputs) ==
    [c \in KeccakColumnSet |->
        CommitEvaluationsNonHiding(s, inputs[KeccakColumnOrder[1]])]

\* Commitments that would be made to the columns of the accumulator.
FoldCommitmentsOfAccumulator(s, inputs) ==
    [c \in KeccakColumnSet |-> CommitEvaluationsNonHiding(s, accumulator[c])]

\* The commitments to the new columns.
FoldCommitments(s, inputs) ==
    [c \in KeccakColumnSet |-> CommitEvaluationsNonHiding(s, inputs[c])]

\* The sponge after the first k commitments were absorbed, in column order.
RECURSIVE AbsorbCommitments(_, _, _)
AbsorbCommitments(sponge, commitments, k) ==
    IF k = 0 THEN sponge
    ELSE Absorb(AbsorbCommitments(sponge, commitments, k - 1),
                commitments[KeccakColumnOrder[k]])

\* The scaling challenge squeezed from the sponge.
ScalingChallenge(sponge) == ToField(Challenge(sponge))

\* The combination with the roles exchanged: old plus scaled new.
FoldCellSwapped(input, challenge, acc) == FAdd(acc, FMul(challenge, input))

\* The combination without the challenge.
FoldCellUnscaled(input, challenge, acc) == FAdd(input, acc)

\* *accumulator = *input + scaling_challenge * *accumulator
FoldCell(input, challenge, acc) == FAdd(input, FMul(challenge, acc))

\* A combining loop that would stop one row early.
FoldAccumulatorSkipLastRow(acc, inputs, challenge) ==
    [c \in KeccakColumnSet |->
        [i \in 1..Len(acc[c]) |->
            IF i < Len(inputs[c])
            THEN FoldCell(inputs[c][i], challenge, acc[c][i])
            ELSE acc[c][i]]]

\* The two zips: a column is updated in the rows the input column has too.
FoldAccumulator(acc, inputs, challenge) ==
    [c \in KeccakColumnSet |->
        [i \in 1..Len(acc[c]) |->
            IF i <= Len(inputs[c])
            THEN FoldCell(inputs[c][i], challenge, acc[c][i])
            ELSE acc[c][i]]]

\* The locals of a fold call that is not running.
NoCall ==
    [pc |-> 0, inputs |-> <<>>, commitments |-> <<>>, fq_sponge |-> <<>>,
     absorbed |-> 0, scaling_challenge |-> -1, old |-> <<>>, done |-> {}]

\* fold(domain, srs, accumulator, inputs), as one step.
Fold(inputs) ==
    /\ Len(folded) < MaxFolds
    /\ LET commitments == FoldCommitments(srs, inputs)
           fq_sponge == AbsorbCommitments(FqSpongeNew, commitments,
                                          Len(KeccakColumnOrder))
           scaling_challenge == ScalingChallenge(fq_sponge)
       IN  /\ accumulator' = FoldAccumulator(accumulator, inputs, scaling_challenge)
           /\ folded' = Append(folded, [inputs |-> inputs,
                                        commitments |-> commitments,
                                        challenge |-> scaling_challenge,
                                        old |-> accumulator])
    /\ UNCHANGED <<srs, acc0, call, prv, vrf, proved, env, ev,
                   trace, traced, ff>>

InitFold ==
    /\ srs \in {SrsCreate(x) : x \in ToxicWaste}
    /\ accumulator \in InitialAccumulators
    /\ acc0 = accumulator
    /\ folded = <<>>
    /\ call = NoCall
    /\ prv = NoProve
    /\ vrf = NoVerify
    /\ proved = NoProve
    /\ env = NoEnv
    /\ ev = NoEval
    /\ trace = NoTrace
    /\ traced = NoTraced
    /\ ff = NoFf

NextFold == \E inputs \in Batches : Fold(inputs)

SpecFold == InitFold /\ [][NextFold]_vars

---------------------------------------------------------------------------
(* fold on a domain and on columns the caller chooses: the domain is a     *)
(* parameter of fold, the accumulator's columns have DOMAIN_SIZE rows.     *)

\* The number of fold calls of a session that chooses its domains.
MaxDomainFolds == 1

\* The sizes of the domains handed to fold.
DomainSizes == {DOMAIN_SIZE \div 2, DOMAIN_SIZE}

\* The group generator of the domain of size n.
GroupGen(n) ==
    CHOOSE w \in 1..(FieldModulus - 1) :
        /\ FPow(w, n) = 1
        /\ \A k \in 1..(n - 1) : FPow(w, k) # 1

\* Evaluations::from_vec_and_domain(evals, domain.d1).interpolate() on the
\* domain of size n.
InterpolateOn(n, evals) ==
    [k \in 1..n |->
        FMul(FInv(n % FieldModulus),
             FSum([i \in 1..n |->
                      FMul(evals[i],
                           FPow(FInv(GroupGen(n)), ((i - 1) * (k - 1)) % n))],
                  n))]

\* What stands for a commitment when the call that makes it aborts.
NoCommitment == -1

\* srs.commit_evaluations_non_hiding(domain.d1, evals) on the domain of size
\* n: the commitment to the interpolated polynomial; a column that has not
\* one evaluation per point of the domain is a structural error and aborts.
CommitEvaluationsOn(s, n, evals) ==
    IF Len(evals) # n THEN NoCommitment
    ELSE CommitNonHiding(s, InterpolateOn(n, evals))

\* The batches a caller hands to fold, every column of a length of its own.
LengthBatches ==
    [KeccakColumnSet -> UNION {[1..n -> BatchValues] : n \in DomainSizes}]

\* fold(domain, srs, accumulator, inputs) on the domain of size n, as one
\* step: a commitment that aborts aborts the call before the accumulator is
\* written; otherwise the zips pair the rows both columns have.
FoldOnDomain(n, inputs) ==
    /\ Len(folded) < MaxDomainFolds
    /\ LET commitments ==
               [c \in KeccakColumnSet |-> CommitEvaluationsOn(srs, n, inputs[c])]
           aborted == \E c \in KeccakColumnSet : commitments[c] = NoCommitment
           fq_sponge == AbsorbCommitments(FqSpongeNew, commitments,
                                          Len(KeccakColumnOrder))
           scaling_challenge == ScalingChallenge(fq_sponge)
       IN  IF aborted
           THEN /\ accumulator' = accumulator
                /\ folded' = Append(folded, [inputs |-> inputs,
                                             commitments |-> commitments,
                                             challenge |-> -1,
                                             old |-> accumulator,
                                             returned |-> FALSE])
           ELSE /\ accumulator' =
                       FoldAccumulator(accumulator, inputs, scaling_challenge)
                /\ folded' = Append(folded, [inputs |-> inputs,
                                             commitments |-> commitments,
                                             challenge |-> scaling_challenge,
                                             old |-> accumulator,
                                             returned |-> TRUE])
    /\ UNCHANGED <<srs, acc0, call, prv, vrf, proved, env, ev,
                   trace, traced, ff>>

NextFoldDomain ==
    \E n \in DomainSizes : \E inputs \in LengthBatches : FoldOnDomain(n, inputs)

SpecFoldDomain == InitFold /\ [][NextFoldDomain]_vars

---------------------------------------------------------------------------
(* fold, step by step: the workers of the two parallel loops run in any    *)
(* order, everything else in program order.                                *)

\* A fold that would squeeze its challenge before it commits to the columns.
FoldProgramChallengeFirst == <<"sponge", "squeeze", "commit", "absorb", "combine">>

\* The stages of fold in program order: the commitments are collected, the
\* sponge is made, the commitments are absorbed, the challenge is squeezed and
\* the accumulator is combined with the new columns.
FoldProgram == <<"commit", "sponge", "absorb", "squeeze", "combine">>

\* The stage the fold call is in.
FoldStage ==
    IF call.pc = 0 THEN "idle"
    ELSE IF call.pc > Len(FoldProgram) THEN "return"
    ELSE FoldProgram[call.pc]

\* The cells the zips of the combining loops pair up.
FoldCells(acc, inputs) ==
    {<<c, i>> \in KeccakColumnSet \X (1..DOMAIN_SIZE) :
        i <= Len(acc[c]) /\ i <= Len(inputs[c])}

\* A caller enters fold with a batch.
FoldCall(inputs) ==
    /\ FoldStage = "idle"
    /\ Len(folded) < MaxStepFolds
    /\ call' = [NoCall EXCEPT !.pc = 1, !.inputs = inputs, !.old = accumulator]
    /\ UNCHANGED <<srs, accumulator, acc0, folded, prv, vrf, proved, env, ev,
                   trace, traced, ff>>

\* One worker of inputs.par_iter().map(..) commits to column c; collect()
\* ends the stage when every column has its commitment.
FoldCommit(c) ==
    /\ FoldStage = "commit"
    /\ c \notin DOMAIN call.commitments
    /\ LET commitments ==
               [x \in (DOMAIN call.commitments) \cup {c} |->
                   IF x = c THEN FoldCommitments(srs, call.inputs)[c]
                   ELSE call.commitments[x]]
       IN  call' = [call EXCEPT
                       !.commitments = commitments,
                       !.pc = IF DOMAIN commitments = KeccakColumnSet
                              THEN @ + 1 ELSE @]
    /\ UNCHANGED <<srs, accumulator, acc0, folded, prv, vrf, proved, env, ev,
                   trace, traced, ff>>

\* let mut fq_sponge = EFqSponge::new(..)
FoldNewSponge ==
    /\ FoldStage = "sponge"
    /\ call' = [call EXCEPT !.fq_sponge = FqSpongeNew, !.pc = @ + 1]
    /\ UNCHANGED <<srs, accumulator, acc0, folded, prv, vrf, proved, env, ev,
                   trace, traced, ff>>

\* One turn of the loop over commitments.into_iter().
FoldAbsorb ==
    /\ FoldStage = "absorb"
    /\ LET k == call.absorbed + 1
       IN  call' = [call EXCEPT
                       !.fq_sponge =
                           Absorb(@, call.commitments[KeccakColumnOrder[k]]),
                       !.absorbed = k,
                       !.pc = IF k = Len(KeccakColumnOrder) THEN @ + 1 ELSE @]
    /\ UNCHANGED <<srs, accumulator, acc0, folded, prv, vrf, proved, env, ev,
                   trace, traced, ff>>

\* The scaling challenge is squeezed and mapped to the field.
FoldSqueeze ==
    /\ FoldStage = "squeeze"
    /\ call' = [call EXCEPT
                   !.scaling_challenge = ScalingChallenge(call.fq_sponge),
                   !.fq_sponge = Squeezed(@),
                   !.pc = @ + 1]
    /\ UNCHANGED <<srs, accumulator, acc0, folded, prv, vrf, proved, env, ev,
                   trace, traced, ff>>

\* A worker that would read the first row of its column instead of its own
\* cell.
FoldCombineReadsFirstRow(c, i) ==
    /\ FoldStage = "combine"
    /\ <<c, i>> \in FoldCells(accumulator, call.inputs) \ call.done
    /\ accumulator' =
           [accumulator EXCEPT
               ![c][i] = FoldCell(call.inputs[c][i], call.scaling_challenge,
                                  accumulator[c][1])]
    /\ LET done == call.done \cup {<<c, i>>}
       IN  call' = [call EXCEPT
                       !.done = done,
                       !.pc = IF done = FoldCells(accumulator, call.inputs)
                              THEN @ + 1 ELSE @]
    /\ UNCHANGED <<srs, acc0, folded, prv, vrf, proved, env, ev,
                   trace, traced, ff>>

\* One worker of the nested par_iter_mut().zip(..).for_each(..) writes cell
\* (c, i); the loops end when every paired cell is written.
FoldCombine(c, i) ==
    /\ FoldStage = "combine"
    /\ <<c, i>> \in FoldCells(accumulator, call.inputs) \ call.done
    /\ accumulator' =
           [accumulator EXCEPT
               ![c][i] = FoldCell(call.inputs[c][i], call.scaling_challenge, @)]
    /\ LET done == call.done \cup {<<c, i>>}
       IN  call' = [call EXCEPT
                       !.done = done,
                       !.pc = IF done = FoldCells(accumulator, call.inputs)
                              THEN @ + 1 ELSE @]
    /\ UNCHANGED <<srs, acc0, folded, prv, vrf, proved, env, ev,
                   trace, traced, ff>>

\* fold returns.
FoldReturn ==
    /\ FoldStage = "return"
    /\ folded' = Append(folded, [inputs |-> call.inputs,
                                 commitments |-> call.commitments,
                                 challenge |-> call.scaling_challenge,
                                 old |-> call.old])
    /\ call' = NoCall
    /\ UNCHANGED <<srs, accumulator, acc0, prv, vrf, proved, env, ev,
                   trace, traced, ff>>

InitFoldSteps == InitFold

NextFoldSteps ==
    \/ \E inputs \in Batches : FoldCall(inputs)
    \/ \E c \in KeccakColumnSet : FoldCommit(c)
    \/ FoldNewSponge
    \/ FoldAbsorb
    \/ FoldSqueeze
    \/ \E c \in KeccakColumnSet : \E i \in Rows : FoldCombine(c, i)
    \/ FoldReturn

SpecFoldSteps == InitFoldSteps /\ [][NextFoldSteps]_vars

---------------------------------------------------------------------------
(* prove, step by step (keccak/proof.rs and msm/prover.rs hold the same    *)
(* statements over their own columns).                                     *)

\* A prove that would clone the sponge after its digest was taken.
KeccakProveProgramCloneAfterDigest ==
    <<"interpolate", "commit", "fq_new", "absorb_commitments", "squeeze_zeta",
      "evaluate", "fr_new", "clone_sponge", "absorb_evaluations",
      "squeeze_v", "squeeze_u", "open">>

\* The statements of keccak's prove in program order.
KeccakProveProgram ==
    <<"interpolate", "commit", "fq_new", "absorb_commitments", "squeeze_zeta",
      "evaluate", "clone_sponge", "fr_new", "absorb_evaluations",
      "squeeze_v", "squeeze_u", "open">>

\* A prove that would squeeze u before v.
MsmProveProgramUFirst ==
    <<"interpolate", "commit", "fq_new", "absorb_commitments", "squeeze_zeta",
      "evaluate", "clone_sponge", "fr_new", "absorb_evaluations",
      "squeeze_u", "squeeze_v", "open">>

\* The statements of msm's prove in program order.
MsmProveProgram ==
    <<"interpolate", "commit", "fq_new", "absorb_commitments", "squeeze_zeta",
      "evaluate", "clone_sponge", "fr_new", "absorb_evaluations",
      "squeeze_v", "squeeze_u", "open">>

ProveProgram(circuit) ==
    IF circuit = "keccak" THEN KeccakProveProgram ELSE MsmProveProgram

\* The statement the prove call is at.
ProveStage ==
    IF prv.pc = 0 THEN "idle"
    ELSE IF prv.pc <= Len(ProveProgram(prv.circuit))
         THEN ProveProgram(prv.circuit)[prv.pc]
    ELSE IF prv.pc = Len(ProveProgram(prv.circuit)) + 1 THEN "return"
    ELSE "returned"

\* The columns a call works on, in declared order: keccak's are the fields
\* of KeccakColumns, msm's are the entries of the vector x it was handed.
ColumnsOf(circuit, columns) ==
    IF circuit = "keccak" THEN KeccakColumnOrder
    ELSE SubSeq(MsmColumnOrder, 1, Cardinality(DOMAIN columns))

\* The columns of the running prove call, in declared order.
ProveColumns == ColumnsOf(prv.circuit, prv.evaluations)

\* fr_sponge.absorb(&zeta_eval); fr_sponge.absorb(&zeta_omega_eval)
AbsorbEvaluationPair(sponge, zeta_eval, zeta_omega_eval) ==
    Absorb(Absorb(sponge, zeta_eval), zeta_omega_eval)

\* A caller enters prove with the witness of a circuit.
ProveCall(circuit, evaluations) ==
    /\ ProveStage = "idle"
    /\ prv' = [NoProve EXCEPT
                  !.pc = 1, !.circuit = circuit, !.evaluations = evaluations]
    /\ UNCHANGED <<srs, accumulator, acc0, folded, call, vrf, proved, env, ev,
                   trace, traced, ff>>

\* let polys = ..: every column is interpolated.
ProveInterpolate ==
    /\ ProveStage = "interpolate"
    /\ prv' = [prv EXCEPT
                  !.polys = [c \in DOMAIN prv.evaluations |->
                                Interpolate(prv.evaluations[c])],
                  !.pc = @ + 1]
    /\ UNCHANGED <<srs, accumulator, acc0, folded, call, vrf, proved, env, ev,
                   trace, traced, ff>>

\* A prove that would commit with the hiding variant: a blinder times the
\* setup's last element is added to every commitment.
ProveCommitHiding ==
    /\ ProveStage = "commit"
    /\ prv' = [prv EXCEPT
                  !.commitments =
                      [c \in DOMAIN prv.polys |->
                          FAdd(CommitNonHiding(srs, prv.polys[c]),
                               srs.g[DOMAIN_SIZE])],
                  !.pc = @ + 1]
    /\ UNCHANGED <<srs, accumulator, acc0, folded, call, vrf, proved, env, ev,
                   trace, traced, ff>>

\* let commitments = ..: every polynomial is committed to.
ProveCommit ==
    /\ ProveStage = "commit"
    /\ prv' = [prv EXCEPT
                  !.commitments = [c \in DOMAIN prv.polys |->
                                      CommitNonHiding(srs, prv.polys[c])],
                  !.pc = @ + 1]
    /\ UNCHANGED <<srs, accumulator, acc0, folded, call, vrf, proved, env, ev,
                   trace, traced, ff>>

\* A prove whose first oracle would live on from one call to the next.
ProveNewFqSpongeKept ==
    /\ ProveStage = "fq_new"
    /\ prv' = [prv EXCEPT
                  !.fq_sponge = IF proved.pc = 0 THEN FqSpongeNew
                                ELSE proved.fq_sponge,
                  !.pc = @ + 1]
    /\ UNCHANGED <<srs, accumulator, acc0, folded, call, vrf, proved, env, ev,
                   trace, traced, ff>>

\* let mut fq_sponge = EFqSponge::new(..)
ProveNewFqSponge ==
    /\ ProveStage = "fq_new"
    /\ prv' = [prv EXCEPT !.fq_sponge = FqSpongeNew, !.pc = @ + 1]
    /\ UNCHANGED <<srs, accumulator, acc0, folded, call, vrf, proved, env, ev,
                   trace, traced, ff>>

\* One turn of the loop that absorbs the commitments.
ProveAbsorbCommitment ==
    /\ ProveStage = "absorb_commitments"
    /\ LET k == prv.absorbed + 1
       IN  prv' = [prv EXCEPT
                      !.fq_sponge = Absorb(@, prv.commitments[ProveColumns[k]]),
                      !.absorbed = k,
                      !.pc = IF k = Len(ProveColumns) THEN @ + 1 ELSE @]
    /\ UNCHANGED <<srs, accumulator, acc0, folded, call, vrf, proved, env, ev,
                   trace, traced, ff>>

\* zeta is squeezed and mapped to the field; zeta_omega = zeta * omega.
ProveSqueezeZeta ==
    /\ ProveStage = "squeeze_zeta"
    /\ LET zeta == ToField(Challenge(prv.fq_sponge))
       IN  prv' = [prv EXCEPT
                      !.zeta = zeta,
                      !.zeta_omega = FMul(zeta, Omega),
                      !.fq_sponge = Squeezed(@),
                      !.pc = @ + 1]
    /\ UNCHANGED <<srs, accumulator, acc0, folded, call, vrf, proved, env, ev,
                   trace, traced, ff>>

\* zeta_evaluations = evals(&zeta); zeta_omega_evaluations = evals(&zeta_omega)
ProveEvaluate ==
    /\ ProveStage = "evaluate"
    /\ prv' = [prv EXCEPT
                  !.zeta_evaluations =
                      [c \in DOMAIN prv.polys |-> Evaluate(prv.polys[c], prv.zeta)],
                  !.zeta_omega_evaluations =
                      [c \in DOMAIN prv.polys |->
                          Evaluate(prv.polys[c], prv.zeta_omega)],
                  !.pc = @ + 1]
    /\ UNCHANGED <<srs, accumulator, acc0, folded, call, vrf, proved, env, ev,
                   trace, traced, ff>>

\* let fq_sponge_before_evaluations = fq_sponge.clone()
ProveCloneSponge ==
    /\ ProveStage = "clone_sponge"
    /\ prv' = [prv EXCEPT
                  !.fq_sponge_before_evaluations = prv.fq_sponge,
                  !.pc = @ + 1]
    /\ UNCHANGED <<srs, accumulator, acc0, folded, call, vrf, proved, env, ev,
                   trace, traced, ff>>

\* let mut fr_sponge = EFrSponge::new(..); fr_sponge.absorb(&fq_sponge.digest())
ProveNewFrSponge ==
    /\ ProveStage = "fr_new"
    /\ prv' = [prv EXCEPT
                  !.fr_sponge = Absorb(FrSpongeNew, Challenge(prv.fq_sponge)),
                  !.fq_sponge = Squeezed(@),
                  !.pc = @ + 1]
    /\ UNCHANGED <<srs, accumulator, acc0, folded, call, vrf, proved, env, ev,
                   trace, traced, ff>>

\* One turn of the loop over the zipped evaluations.
ProveAbsorbEvaluations ==
    /\ ProveStage = "absorb_evaluations"
    /\ LET k == prv.absorbed_evaluations + 1
       IN  prv' = [prv EXCEPT
                      !.fr_sponge =
                          AbsorbEvaluationPair(
                              @, prv.zeta_evaluations[ProveColumns[k]],
                              prv.zeta_omega_evaluations[ProveColumns[k]]),
                      !.absorbed_evaluations = k,
                      !.pc = IF k = Len(ProveColumns) THEN @ + 1 ELSE @]
    /\ UNCHANGED <<srs, accumulator, acc0, folded, call, vrf, proved, env, ev,
                   trace, traced, ff>>

\* let v = fr_sponge.challenge().to_field(endo_r)
ProveSqueezeV ==
    /\ ProveStage = "squeeze_v"
    /\ prv' = [prv EXCEPT
                  !.v = ToField(Challenge(prv.fr_sponge)),
                  !.fr_sponge = Squeezed(@),
                  !.pc = @ + 1]
    /\ UNCHANGED <<srs, accumulator, acc0, folded, call, vrf, proved, env, ev,
                   trace, traced, ff>>

\* let u = fr_sponge.challenge().to_field(endo_r)
ProveSqueezeU ==
    /\ ProveStage = "squeeze_u"
    /\ prv' = [prv EXCEPT
                  !.u = ToField(Challenge(prv.fr_sponge)),
                  !.fr_sponge = Squeezed(@),
                  !.pc = @ + 1]
    /\ UNCHANGED <<srs, accumulator, acc0, folded, call, vrf, proved, env, ev,
                   trace, traced, ff>>

\* let opening_proof = OpenProof::open(.., &mut rand::rngs::OsRng)
ProveOpen(nonce) ==
    /\ ProveStage = "open"
    /\ prv' = [prv EXCEPT
                  !.opening_proof =
                      Open(srs,
                           [k \in 1..Len(ProveColumns) |-> prv.polys[ProveColumns[k]]],
                           <<prv.zeta, prv.zeta_omega>>, prv.v, prv.u,
                           prv.fq_sponge_before_evaluations, nonce),
                  !.pc = @ + 1]
    /\ UNCHANGED <<srs, accumulator, acc0, folded, call, vrf, proved, env, ev,
                   trace, traced, ff>>

\* A prove that would return the two evaluation vectors in each other's place.
ProveReturnSwapped ==
    /\ ProveStage = "return"
    /\ prv' = [prv EXCEPT
                  !.proof = [circuit |-> prv.circuit,
                             commitments |-> prv.commitments,
                             zeta_evaluations |-> prv.zeta_omega_evaluations,
                             zeta_omega_evaluations |-> prv.zeta_evaluations,
                             opening_proof |-> prv.opening_proof],
                  !.pc = @ + 1]
    /\ proved' = prv'
    /\ UNCHANGED <<srs, accumulator, acc0, folded, call, vrf, env, ev,
                   trace, traced, ff>>

\* prove returns the proof.
ProveReturn ==
    /\ ProveStage = "return"
    /\ prv' = [prv EXCEPT
                  !.proof = [circuit |-> prv.circuit,
                             commitments |-> prv.commitments,
                             zeta_evaluations |-> prv.zeta_evaluations,
                             zeta_omega_evaluations |-> prv.zeta_omega_evaluations,
                             opening_proof |-> prv.opening_proof],
                  !.pc = @ + 1]
    /\ proved' = prv'
    /\ UNCHANGED <<srs, accumulator, acc0, folded, call, vrf, env, ev,
                   trace, traced, ff>>

\* The returned call's locals are dropped: the caller may call prove again.
ProveEnd ==
    /\ ProveStage = "returned"
    /\ prv' = NoProve
    /\ UNCHANGED <<srs, accumulator, acc0, folded, call, vrf, proved, env, ev,
                   trace, traced, ff>>

\* Calls of the MSM prover one after the other, each with any witness.
NextProveTwice ==
    \/ \E evaluations \in Witnesses("msm") : ProveCall("msm", evaluations)
    \/ ProveInterpolate
    \/ ProveCommit
    \/ ProveNewFqSponge
    \/ ProveAbsorbCommitment
    \/ ProveSqueezeZeta
    \/ ProveEvaluate
    \/ ProveCloneSponge
    \/ ProveNewFrSponge
    \/ ProveAbsorbEvaluations
    \/ ProveSqueezeV
    \/ ProveSqueezeU
    \/ \E nonce \in Nonces : ProveOpen(nonce)
    \/ ProveReturn
    \/ ProveEnd

---------------------------------------------------------------------------
(* verify of keccak/proof.rs, step by step.  It reads the proof and the    *)
(* setup, and nothing of the prove call.                                   *)

\* A verify that would squeeze u before v.
KeccakVerifyProgramUFirst ==
    <<"fq_new", "absorb_commitments", "squeeze_zeta", "clone_sponge", "fr_new",
      "collect_evaluations", "absorb_evaluations", "squeeze_u", "squeeze_v",
      "check">>

\* The statements of verify in program order.
KeccakVerifyProgram ==
    <<"fq_new", "absorb_commitments", "squeeze_zeta", "clone_sponge", "fr_new",
      "collect_evaluations", "absorb_evaluations", "squeeze_v", "squeeze_u",
      "check">>

\* The statement the verify call is at.
VerifyStage ==
    IF vrf.pc = 0 THEN "idle"
    ELSE IF vrf.pc <= Len(KeccakVerifyProgram) THEN KeccakVerifyProgram[vrf.pc]
    ELSE "returned"

\* A verify that would absorb each pair in the other order.
VerifyAbsorbEvaluationPairSwapped(sponge, zeta_eval, zeta_omega_eval) ==
    Absorb(Absorb(sponge, zeta_omega_eval), zeta_eval)

\* fr_sponge.absorb(&zeta_eval); fr_sponge.absorb(&zeta_omega_eval)
VerifyAbsorbEvaluationPair(sponge, zeta_eval, zeta_omega_eval) ==
    Absorb(Absorb(sponge, zeta_eval), zeta_omega_eval)

\* The columns of the proof of the running verify call, in declared order.
VerifyColumns == ColumnsOf(vrf.proof.circuit, vrf.proof.commitments)

\* A caller hands verify the proof that prove returned.
VerifyCall ==
    /\ VerifyStage = "idle"
    /\ ProveStage = "returned"
    /\ prv.proof.circuit = "keccak"
    /\ vrf' = [NoVerify EXCEPT !.pc = 1, !.proof = prv.proof]
    /\ UNCHANGED <<srs, accumulator, acc0, folded, call, prv, proved, env, ev,
                   trace, traced, ff>>

\* What is added to a scalar of a proof to change it.
TamperDeltas == {1, 3}

\* The opening proofs that differ from opening in one place: a scalar of the
\* statement it was made for, or what it holds of the prover's draw.
TamperedOpenings(opening) ==
    {[opening EXCEPT !.polyscale = FAdd(@, d)] : d \in TamperDeltas}
        \cup {[opening EXCEPT !.evalscale = FAdd(@, d)] : d \in TamperDeltas}
        \cup {[opening EXCEPT !.points[k] = FAdd(@, d)] :
                  k \in 1..Len(opening.points), d \in TamperDeltas}
        \cup {[opening EXCEPT !.polynomials[j][k] = FAdd(@, d)] :
                  j \in 1..Len(opening.polynomials), k \in Rows,
                  d \in TamperDeltas}
        \cup {[opening EXCEPT !.sponge = Absorb(@, d)] : d \in TamperDeltas}
        \cup {[opening EXCEPT !.nonce = @ + Cardinality(Nonces)]}

\* The proofs that differ from proof in one place: one commitment, one
\* evaluation at zeta, one evaluation at zeta * omega, or the opening proof.
Tampered(proof) ==
    {[proof EXCEPT !.commitments[c] = FAdd(@, d)] :
        c \in DOMAIN proof.commitments, d \in TamperDeltas}
        \cup {[proof EXCEPT !.zeta_evaluations[c] = FAdd(@, d)] :
                  c \in DOMAIN proof.zeta_evaluations, d \in TamperDeltas}
        \cup {[proof EXCEPT !.zeta_omega_evaluations[c] = FAdd(@, d)] :
                  c \in DOMAIN proof.zeta_omega_evaluations, d \in TamperDeltas}
        \cup {[proof EXCEPT !.opening_proof = o] :
                  o \in TamperedOpenings(proof.opening_proof)}

\* A caller hands verify a proof that is not the one prove returned.
VerifyCallTampered(proof) ==
    /\ VerifyStage = "idle"
    /\ ProveStage = "returned"
    /\ prv.proof.circuit = "keccak"
    /\ proof \in Tampered(prv.proof)
    /\ vrf' = [NoVerify EXCEPT !.pc = 1, !.proof = proof]
    /\ UNCHANGED <<srs, accumulator, acc0, folded, call, prv, proved, env, ev,
                   trace, traced, ff>>

\* A caller hands the MSM verifier the proof that the MSM prover returned.
VerifyCallMsm ==
    /\ VerifyStage = "idle"
    /\ ProveStage = "returned"
    /\ prv.proof.circuit = "msm"
    /\ vrf' = [NoVerify EXCEPT !.pc = 1, !.proof = prv.proof]
    /\ UNCHANGED <<srs, accumulator, acc0, folded, call, prv, proved, env, ev,
                   trace, traced, ff>>

\* let mut fq_sponge = EFqSponge::new(..)
VerifyNewFqSponge ==
    /\ VerifyStage = "fq_new"
    /\ vrf' = [vrf EXCEPT !.fq_sponge = FqSpongeNew, !.pc = @ + 1]
    /\ UNCHANGED <<srs, accumulator, acc0, folded, call, prv, proved, env, ev,
                   trace, traced, ff>>

\* One turn of the loop that absorbs the proof's commitments.
VerifyAbsorbCommitment ==
    /\ VerifyStage = "absorb_commitments"
    /\ LET k == vrf.absorbed + 1
       IN  vrf' = [vrf EXCEPT
                      !.fq_sponge =
                          Absorb(@, vrf.proof.commitments[VerifyColumns[k]]),
                      !.absorbed = k,
                      !.pc = IF k = Len(VerifyColumns) THEN @ + 1 ELSE @]
    /\ UNCHANGED <<srs, accumulator, acc0, folded, call, prv, proved, env, ev,
                   trace, traced, ff>>

\* zeta is squeezed and mapped to the field; zeta_omega = zeta * omega.
VerifySqueezeZeta ==
    /\ VerifyStage = "squeeze_zeta"
    /\ LET zeta == ToField(Challenge(vrf.fq_sponge))
       IN  vrf' = [vrf EXCEPT
                      !.zeta = zeta,
                      !.zeta_omega = FMul(zeta, Omega),
                      !.fq_sponge = Squeezed(@),
                      !.pc = @ + 1]
    /\ UNCHANGED <<srs, accumulator, acc0, folded, call, prv, proved, env, ev,
                   trace, traced, ff>>

\* let fq_sponge_before_evaluations = fq_sponge.clone()
VerifyCloneSponge ==
    /\ VerifyStage = "clone_sponge"
    /\ vrf' = [vrf EXCEPT
                  !.fq_sponge_before_evaluations = vrf.fq_sponge,
                  !.pc = @ + 1]
    /\ UNCHANGED <<srs, accumulator, acc0, folded, call, prv, proved, env, ev,
                   trace, traced, ff>>

\* let mut fr_sponge = EFrSponge::new(..); fr_sponge.absorb(&fq_sponge.digest())
VerifyNewFrSponge ==
    /\ VerifyStage = "fr_new"
    /\ vrf' = [vrf EXCEPT
                  !.fr_sponge = Absorb(FrSpongeNew, Challenge(vrf.fq_sponge)),
                  !.fq_sponge = Squeezed(@),
                  !.pc = @ + 1]
    /\ UNCHANGED <<srs, accumulator, acc0, folded, call, prv, proved, env, ev,
                   trace, traced, ff>>

\* let es = ..; let evaluations = ..: the proof's evaluations, and its
\* commitments with their evaluations, in column order.
VerifyCollectEvaluations ==
    /\ VerifyStage = "collect_evaluations"
    /\ LET pair(k) ==
               <<<<vrf.proof.zeta_evaluations[VerifyColumns[k]]>>,
                 <<vrf.proof.zeta_omega_evaluations[VerifyColumns[k]]>>>>
       IN  vrf' = [vrf EXCEPT
                      !.es = [k \in 1..Len(VerifyColumns) |-> pair(k)],
                      !.evaluations =
                          [k \in 1..Len(VerifyColumns) |->
                              [commitment |->
                                   vrf.proof.commitments[VerifyColumns[k]],
                               evaluations |-> pair(k)]],
                      !.pc = @ + 1]
    /\ UNCHANGED <<srs, accumulator, acc0, folded, call, prv, proved, env, ev,
                   trace, traced, ff>>

\* One turn of the loop over the proof's zipped evaluations.
VerifyAbsorbEvaluations ==
    /\ VerifyStage = "absorb_evaluations"
    /\ LET k == vrf.absorbed_evaluations + 1
       IN  vrf' = [vrf EXCEPT
                      !.fr_sponge =
                          VerifyAbsorbEvaluationPair(
                              @, vrf.proof.zeta_evaluations[VerifyColumns[k]],
                              vrf.proof.zeta_omega_evaluations[VerifyColumns[k]]),
                      !.absorbed_evaluations = k,
                      !.pc = IF k = Len(VerifyColumns) THEN @ + 1 ELSE @]
    /\ UNCHANGED <<srs, accumulator, acc0, folded, call, prv, proved, env, ev,
                   trace, traced, ff>>

\* let v = fr_sponge.challenge().to_field(endo_r)
VerifySqueezeV ==
    /\ VerifyStage = "squeeze_v"
    /\ vrf' = [vrf EXCEPT
                  !.v = ToField(Challenge(vrf.fr_sponge)),
                  !.fr_sponge = Squeezed(@),
                  !.pc = @ + 1]
    /\ UNCHANGED <<srs, accumulator, acc0, folded, call, prv, proved, env, ev,
                   trace, traced, ff>>

\* let u = fr_sponge.challenge().to_field(endo_r)
VerifySqueezeU ==
    /\ VerifyStage = "squeeze_u"
    /\ vrf' = [vrf EXCEPT
                  !.u = ToField(Challenge(vrf.fr_sponge)),
                  !.fr_sponge = Squeezed(@),
                  !.pc = @ + 1]
    /\ UNCHANGED <<srs, accumulator, acc0, folded, call, prv, proved, env, ev,
                   trace, traced, ff>>

\* A verify that would return true whatever OpeningProof::verify returns.
VerifyCheckIgnoresOpening ==
    /\ VerifyStage = "check"
    /\ vrf' = [vrf EXCEPT !.result = TRUE, !.pc = @ + 1]
    /\ UNCHANGED <<srs, accumulator, acc0, folded, call, prv, proved, env, ev,
                   trace, traced, ff>>

\* A verify that would assert that OpeningProof::verify returns true.
VerifyCheckAsserts ==
    /\ VerifyStage = "check"
    /\ LET batch ==
               [sponge |-> vrf.fq_sponge_before_evaluations,
                evaluations |-> vrf.evaluations,
                evaluation_points |-> <<vrf.zeta, vrf.zeta_omega>>,
                polyscale |-> vrf.v,
                evalscale |-> vrf.u,
                opening |-> vrf.proof.opening_proof,
                combined_inner_product |->
                    CombinedInnerProduct(<<vrf.zeta, vrf.zeta_omega>>,
                                         vrf.v, vrf.u, vrf.es)]
       IN  /\ VerifyOpening(srs, batch)
           /\ vrf' = [vrf EXCEPT !.batch = batch, !.result = TRUE, !.pc = @ + 1]
    /\ UNCHANGED <<srs, accumulator, acc0, folded, call, prv, proved, env, ev,
                   trace, traced, ff>>

\* The combined inner product and the batch are built and the opening proof
\* is verified; verify returns what OpeningProof::verify returns.
VerifyCheck ==
    /\ VerifyStage = "check"
    /\ LET batch ==
               [sponge |-> vrf.fq_sponge_before_evaluations,
                evaluations |-> vrf.evaluations,
                evaluation_points |-> <<vrf.zeta, vrf.zeta_omega>>,
                polyscale |-> vrf.v,
                evalscale |-> vrf.u,
                opening |-> vrf.proof.opening_proof,
                combined_inner_product |->
                    CombinedInnerProduct(<<vrf.zeta, vrf.zeta_omega>>,
                                         vrf.v, vrf.u, vrf.es)]
       IN  vrf' = [vrf EXCEPT
                      !.batch = batch,
                      !.result = VerifyOpening(srs, batch),
                      !.pc = @ + 1]
    /\ UNCHANGED <<srs, accumulator, acc0, folded, call, prv, proved, env, ev,
                   trace, traced, ff>>

InitProve ==
    /\ srs \in {SrsCreate(x) : x \in ToxicWaste}
    /\ accumulator = KeccakDefault
    /\ acc0 = accumulator
    /\ folded = <<>>
    /\ call = NoCall
    /\ prv = NoProve
    /\ vrf = NoVerify
    /\ proved = NoProve
    /\ env = NoEnv
    /\ ev = NoEval
    /\ trace = NoTrace
    /\ traced = NoTraced
    /\ ff = NoFf

NextProve ==
    \/ \E circuit \in Circuits : \E evaluations \in Witnesses(circuit) :
          ProveCall(circuit, evaluations)
    \/ ProveInterpolate
    \/ ProveCommit
    \/ ProveNewFqSponge
    \/ ProveAbsorbCommitment
    \/ ProveSqueezeZeta
    \/ ProveEvaluate
    \/ ProveCloneSponge
    \/ ProveNewFrSponge
    \/ ProveAbsorbEvaluations
    \/ ProveSqueezeV
    \/ ProveSqueezeU
    \/ \E nonce \in Nonces : ProveOpen(nonce)
    \/ ProveReturn
    \/ VerifyCall
    \/ VerifyNewFqSponge
    \/ VerifyAbsorbCommitment
    \/ VerifySqueezeZeta
    \/ VerifyCloneSponge
    \/ VerifyNewFrSponge
    \/ VerifyCollectEvaluations
    \/ VerifyAbsorbEvaluations
    \/ VerifySqueezeV
    \/ VerifySqueezeU
    \/ VerifyCheck

SpecProve == InitProve /\ [][NextProve]_vars

SpecProveTwice == InitProve /\ [][NextProveTwice]_vars

\* The steps of a verify call.
VerifySteps ==
    \/ VerifyNewFqSponge
    \/ VerifyAbsorbCommitment
    \/ VerifySqueezeZeta
    \/ VerifyCloneSponge
    \/ VerifyNewFrSponge
    \/ VerifyCollectEvaluations
    \/ VerifyAbsorbEvaluations
    \/ VerifySqueezeV
    \/ VerifySqueezeU
    \/ VerifyCheck

\* The witnesses whose proofs are handed to verify: columns of DOMAIN_SIZE
\* rows over BatchValues.
VerifyWitnesses == [KeccakColumnSet -> [Rows -> BatchValues]]

\* A prove call, then a verify call for the proof it returned or for a proof
\* that differs from it in one place.
NextVerify ==
    \/ \E evaluations \in VerifyWitnesses : ProveCall("keccak", evaluations)
    \/ ProveInterpolate
    \/ ProveCommit
    \/ ProveNewFqSponge
    \/ ProveAbsorbCommitment
    \/ ProveSqueezeZeta
    \/ ProveEvaluate
    \/ ProveCloneSponge
    \/ ProveNewFrSponge
    \/ ProveAbsorbEvaluations
    \/ ProveSqueezeV
    \/ ProveSqueezeU
    \/ \E nonce \in Nonces : ProveOpen(nonce)
    \/ ProveReturn
    \/ VerifyCall
    \/ /\ ProveStage = "returned"
       /\ \E proof \in Tampered(prv.proof) : VerifyCallTampered(proof)
    \/ VerifySteps

SpecVerify == InitProve /\ [][NextVerify]_vars

\* The witnesses of one column that the MSM prover is handed.
SingleColumnWitnesses == [{MsmColumnOrder[1]} -> [Rows -> 0..MaxVal]]

\* An MSM prove call for a witness of one column, then the verify call for
\* the proof it returned.
NextMsm ==
    \/ \E evaluations \in SingleColumnWitnesses : ProveCall("msm", evaluations)
    \/ ProveInterpolate
    \/ ProveCommit
    \/ ProveNewFqSponge
    \/ ProveAbsorbCommitment
    \/ ProveSqueezeZeta
    \/ ProveEvaluate
    \/ ProveCloneSponge
    \/ ProveNewFrSponge
    \/ ProveAbsorbEvaluations
    \/ ProveSqueezeV
    \/ ProveSqueezeU
    \/ \E nonce \in Nonces : ProveOpen(nonce)
    \/ ProveReturn
    \/ VerifyCallMsm
    \/ VerifySteps

SpecMsm == InitProve /\ [][NextMsm]_vars

\* verify is straight-line code run by its caller's thread: a call that has
\* a step to take takes it.
SpecVerifyFair == SpecVerify /\ WF_vars(VerifySteps)

---------------------------------------------------------------------------
(* The evaluation leaf (folding::eval_leaf::EvalLeaf): a constant, or a    *)
(* column of one scalar per row.  A call that aborts is written as a leaf  *)
(* of kind Panic that holds the message.                                   *)

Const(x) == [kind |-> "Const", value |-> x]

Col(column) == [kind |-> "Col", value |-> column]

Panic(message) == [kind |-> "Panic", value |-> message]

\* Field::double and Field::square
FieldDouble(x) == (2 * x) % FieldModulus

FieldSquare(x) == (x * x) % FieldModulus

\* leaf.map(Field::double, ..): the leaf with every scalar doubled.
LeafDouble(leaf) ==
    IF leaf.kind = "Const" THEN Const(FieldDouble(leaf.value))
    ELSE Col([i \in 1..Len(leaf.value) |-> FieldDouble(leaf.value[i])])

\* leaf.map(Field::square, ..): the leaf with every scalar squared.
LeafSquare(leaf) ==
    IF leaf.kind = "Const" THEN Const(FieldSquare(leaf.value))
    ELSE Col([i \in 1..Len(leaf.value) |-> FieldSquare(leaf.value[i])])

\* The field operation of a binary node.
FieldOp(node, x, y) ==
    CASE node = "Add" -> FAdd(x, y)
      [] node = "Sub" -> FSub(x, y)
      [] node = "Mul" -> FMul(x, y)

\* a + b, a - b and a * b of two leaves: a constant is broadcast against a
\* column, two columns are combined row by row and must have the same length.
LeafOp(node, a, b) ==
    CASE a.kind = "Const" /\ b.kind = "Const" ->
             Const(FieldOp(node, a.value, b.value))
      [] a.kind = "Const" /\ b.kind = "Col" ->
             Col([i \in 1..Len(b.value) |-> FieldOp(node, a.value, b.value[i])])
      [] a.kind = "Col" /\ b.kind = "Const" ->
             Col([i \in 1..Len(a.value) |-> FieldOp(node, a.value[i], b.value)])
      [] a.kind = "Col" /\ b.kind = "Col" ->
             IF Len(a.value) # Len(b.value)
             THEN Panic("mismatched column lengths")
             ELSE Col([i \in 1..Len(a.value) |->
                          FieldOp(node, a.value[i], b.value[i])])

---------------------------------------------------------------------------
(* SimpleEvalEnv and the two evaluators of ivc/src/expr_eval.rs.  An       *)
(* expression is a tuple <<node, operands..>>, an atom's column a tuple    *)
(* <<tag, fields..>>; columns, alphas and extended columns count from 0.   *)

\* self.challenge(challenge)
EnvChallenge(e, challenge) ==
    CASE challenge = "Beta" -> e.challenges[1]
      [] challenge = "Gamma" -> e.challenges[2]
      [] challenge = "JointCombiner" -> e.challenges[3]

\* A resolver that would take a missing alpha to be zero.
ProcessExtendedFoldingColumnAlphaDefault(e, col) ==
    CASE col[1] = "Inner" ->
             IF col[3] = "Next" THEN Panic("not implemented")
             ELSE Col(e.witness[col[2] + 1])
      [] col[1] = "WitnessExtended" ->
             IF col[2] < Len(e.extended) THEN Col(e.extended[col[2] + 1])
             ELSE Panic("called Option::unwrap() on a None value")
      [] col[1] = "Error" -> Panic("shouldn't happen")
      [] col[1] = "Constant" -> Const(col[2])
      [] col[1] = "Challenge" -> Const(EnvChallenge(e, col[2]))
      [] col[1] = "Alpha" ->
             IF col[2] < Len(e.alphas) THEN Const(e.alphas[col[2] + 1])
             ELSE Const(0)
      [] col[1] = "Selector" -> Panic("Selector not implemented")

\* A resolver that would resolve the error column to the environment's.
ProcessExtendedFoldingColumnResolvesError(e, col) ==
    CASE col[1] = "Inner" ->
             IF col[3] = "Next" THEN Panic("not implemented")
             ELSE Col(e.witness[col[2] + 1])
      [] col[1] = "WitnessExtended" ->
             IF col[2] < Len(e.extended) THEN Col(e.extended[col[2] + 1])
             ELSE Panic("called Option::unwrap() on a None value")
      [] col[1] = "Error" -> Col(e.error_vec)
      [] col[1] = "Constant" -> Const(col[2])
      [] col[1] = "Challenge" -> Const(EnvChallenge(e, col[2]))
      [] col[1] = "Alpha" ->
             IF col[2] < Len(e.alphas) THEN Const(e.alphas[col[2] + 1])
             ELSE Panic("alpha not present")
      [] col[1] = "Selector" -> Panic("Selector not implemented")

\* self.process_extended_folding_column(col)
ProcessExtendedFoldingColumn(e, col) ==
    CASE col[1] = "Inner" ->
             IF col[3] = "Next" THEN Panic("not implemented")
             ELSE Col(e.witness[col[2] + 1])
      [] col[1] = "WitnessExtended" ->
             IF col[2] < Len(e.extended) THEN Col(e.extended[col[2] + 1])
             ELSE Panic("called Option::unwrap() on a None value")
      [] col[1] = "Error" -> Panic("shouldn't happen")
      [] col[1] = "Constant" -> Const(col[2])
      [] col[1] = "Challenge" -> Const(EnvChallenge(e, col[2]))
      [] col[1] = "Alpha" ->
             IF col[2] < Len(e.alphas) THEN Const(e.alphas[col[2] + 1])
             ELSE Panic("alpha not present")
      [] col[1] = "Selector" -> Panic("Selector not implemented")

\* The match on the atom of a FoldingCompatibleExpr and on its extension.
ProcessCompatibleColumn(e, column) ==
    CASE column[1] = "Cell" ->
             IF column[3] = "Next" THEN Panic("not implemented")
             ELSE Col(e.witness[column[2] + 1])
      [] column[1] = "Challenge" -> Const(EnvChallenge(e, column[2]))
      [] column[1] = "Constant" -> Const(column[2])
      [] column[1] = "Extensions" ->
             LET ext == column[2]
             IN  CASE ext[1] = "U" -> Const(e.u)
                   [] ext[1] = "Error" -> Col(e.error_vec)
                   [] ext[1] = "ExtendedWitness" ->
                          IF ext[2] < Len(e.extended)
                          THEN Col(e.extended[ext[2] + 1])
                          ELSE Panic("called Option::unwrap() on a None value")
                   [] ext[1] = "Alpha" ->
                          IF ext[2] < Len(e.alphas)
                          THEN Const(e.alphas[ext[2] + 1])
                          ELSE Panic("called Option::unwrap() on a None value")
                   [] ext[1] = "Selector" -> Panic("No selectors supported yet")

\* A Double node that would square and a Square node that would double.
EvalUnarySwapped(node, leaf) ==
    IF leaf.kind = "Panic" THEN leaf
    ELSE IF node = "Double" THEN LeafSquare(leaf) ELSE LeafDouble(leaf)

\* Double(e) and Square(e): col.map(..) of the leaf of e; a call of e that
\* aborts aborts the node.
EvalUnary(node, leaf) ==
    IF leaf.kind = "Panic" THEN leaf
    ELSE IF node = "Double" THEN LeafDouble(leaf) ELSE LeafSquare(leaf)

\* Add, Sub and Mul: e1 is evaluated before e2, and the first call that
\* aborts aborts the node.
EvalBinary(node, a, b) ==
    IF a.kind = "Panic" THEN a
    ELSE IF b.kind = "Panic" THEN b
    ELSE LeafOp(node, a, b)

RECURSIVE EvalNaiveFexpr(_, _)

\* A Pow node that would accept the unit power.
FexprPowUnit(e, exp) ==
    IF exp[3] = 1 THEN EvalNaiveFexpr(e, exp[2])
    ELSE Panic("We're not supposed to use this")

\* Pow(_e, _i) of eval_naive_fexpr
FexprPow(e, exp) == Panic("We're not supposed to use this")

\* self.eval_naive_fexpr(exp)
EvalNaiveFexpr(e, exp) ==
    CASE exp[1] = "Atom" -> ProcessExtendedFoldingColumn(e, exp[2])
      [] exp[1] \in {"Double", "Square"} ->
             EvalUnary(exp[1], EvalNaiveFexpr(e, exp[2]))
      [] exp[1] \in {"Add", "Sub", "Mul"} ->
             EvalBinary(exp[1], EvalNaiveFexpr(e, exp[2]),
                        EvalNaiveFexpr(e, exp[3]))
      [] exp[1] = "Pow" -> FexprPow(e, exp)

RECURSIVE EvalNaiveFcompat(_, _)

\* A Pow node that would accept the unit power.
FcompatPowUnit(e, exp) ==
    IF exp[3] = 1 THEN EvalNaiveFcompat(e, exp[2])
    ELSE Panic("We're not supposed to use this")

\* Pow(_e, _i) of eval_naive_fcompat
FcompatPow(e, exp) == Panic("We're not supposed to use this")

\* self.eval_naive_fcompat(exp)
EvalNaiveFcompat(e, exp) ==
    CASE exp[1] = "Atom" -> ProcessCompatibleColumn(e, exp[2])
      [] exp[1] \in {"Double", "Square"} ->
             EvalUnary(exp[1], EvalNaiveFcompat(e, exp[2]))
      [] exp[1] \in {"Add", "Sub", "Mul"} ->
             EvalBinary(exp[1], EvalNaiveFcompat(e, exp[2]),
                        EvalNaiveFcompat(e, exp[3]))
      [] exp[1] = "Pow" -> FcompatPow(e, exp)

---------------------------------------------------------------------------
(* The evaluator's inputs: environments with and without the extended      *)
(* column and the alpha an expression refers to, and every expression of   *)
(* depth at most MaxDepth: a binary node has a plain left or right operand, *)
(* a Pow node raises an atom.                                              *)

MaxDepth == 2
PowExponents == {1, 2}

Envs ==
    [witness : {<<<<1, 2>>>>}, extended : {<<>>, <<<<3, 4>>>>},
     alphas : {<<>>, <<5>>}, challenges : {<<2, 3, 4>>},
     error_vec : {<<6, 1>>}, u : {3}]

\* ExtendedFoldingColumn
FoldingColumns ==
    {<<"Inner", 0, "Curr">>, <<"Inner", 0, "Next">>, <<"WitnessExtended", 0>>,
     <<"Error">>, <<"Constant", 3>>, <<"Challenge", "Gamma">>, <<"Alpha", 0>>,
     <<"Selector", 0>>}

\* FoldingCompatibleExprInner and ExpExtension
CompatibleColumns ==
    {<<"Cell", 0, "Curr">>, <<"Cell", 0, "Next">>, <<"Challenge", "Gamma">>,
     <<"Constant", 3>>, <<"Extensions", <<"U">>>>,
     <<"Extensions", <<"Error">>>>, <<"Extensions", <<"ExtendedWitness", 0>>>>,
     <<"Extensions", <<"Alpha", 0>>>>, <<"Extensions", <<"Selector", 0>>>>}

RECURSIVE Exprs(_, _, _, _)
Exprs(atoms, left, right, depth) ==
    IF depth = 0 THEN atoms
    ELSE LET sub == Exprs(atoms, left, right, depth - 1)
         IN  atoms
             \cup {<<node, e1>> : node \in {"Double", "Square"}, e1 \in sub}
             \cup {<<"Pow", e1, i>> : e1 \in atoms, i \in PowExponents}
             \cup {<<node, e1, e2>> :
                      node \in {"Add", "Sub", "Mul"}, e1 \in left, e2 \in sub}
             \cup {<<node, e1, e2>> :
                      node \in {"Add", "Sub", "Mul"}, e1 \in sub, e2 \in right}

\* FoldingExp, to the given depth
FoldingExps(depth) ==
    Exprs({<<"Atom", col>> : col \in FoldingColumns},
          {<<"Atom", <<"Constant", 3>>>>, <<"Atom", <<"Inner", 0, "Curr">>>>},
          {<<"Atom", <<"Constant", 3>>>>}, depth)

\* FoldingCompatibleExpr, to the given depth
FoldingCompatibleExprs(depth) ==
    Exprs({<<"Atom", col>> : col \in CompatibleColumns},
          {<<"Atom", <<"Constant", 3>>>>, <<"Atom", <<"Cell", 0, "Curr">>>>},
          {<<"Atom", <<"Constant", 3>>>>}, depth)

InitEval ==
    /\ srs = SrsCreate(CHOOSE x \in ToxicWaste : TRUE)
    /\ accumulator = KeccakDefault
    /\ acc0 = accumulator
    /\ folded = <<>>
    /\ call = NoCall
    /\ prv = NoProve
    /\ vrf = NoVerify
    /\ proved = NoProve
    /\ env \in Envs
    /\ ev = NoEval
    /\ trace = NoTrace
    /\ traced = NoTraced
    /\ ff = NoFf

\* A call that would double a column of the environment in place.
EvalNaiveFexprCallInPlace ==
    /\ ev.entry = "none"
    /\ \E exp \in FoldingExps(MaxDepth) :
          /\ ev' = [entry |-> "fexpr", exp |-> exp,
                    result |-> EvalNaiveFexpr(env, exp)]
          /\ env' = IF exp[1] = "Double" /\ ev'.result.kind = "Col"
                    THEN [env EXCEPT !.witness = <<ev'.result.value>>]
                    ELSE env
    /\ UNCHANGED <<srs, accumulator, acc0, folded, call, prv, vrf, proved,
                   trace, traced, ff>>

\* env.eval_naive_fexpr(&exp) on some expression: the environment is
\* borrowed shared.
EvalNaiveFexprCall ==
    /\ ev.entry = "none"
    /\ \E exp \in FoldingExps(MaxDepth) :
          ev' = [entry |-> "fexpr", exp |-> exp,
                 result |-> EvalNaiveFexpr(env, exp)]
    /\ UNCHANGED <<srs, accumulator, acc0, folded, call, prv, vrf, proved, env,
                   trace, traced, ff>>

\* env.eval_naive_fcompat(&exp) on some expression: the environment is
\* borrowed shared.
EvalNaiveFcompatCall ==
    /\ ev.entry = "none"
    /\ \E exp \in FoldingCompatibleExprs(MaxDepth) :
          ev' = [entry |-> "fcompat", exp |-> exp,
                 result |-> EvalNaiveFcompat(env, exp)]
    /\ UNCHANGED <<srs, accumulator, acc0, folded, call, prv, vrf, proved, env,
                   trace, traced, ff>>

NextEval ==
    \/ EvalNaiveFexprCall
    \/ EvalNaiveFcompatCall

SpecEval == InitEval /\ [][NextEval]_vars

---------------------------------------------------------------------------
(***************************************************************************)
(* The MIPS tracer of optimism/src/mips/trace.rs.  A tracer holds, for      *)
(* every instruction, a witness of MIPS_COLUMNS columns; a row is one       *)
(* scalar per column.                                                       *)
(***************************************************************************)

\* The number of columns of a witness, and the instructions in the order
\* Instruction::iter() yields them.
MIPS_COLUMNS == 2

InstructionOrder == <<"RType", "JType">>

Instructions == {InstructionOrder[k] : k \in 1..Len(InstructionOrder)}

\* The domain sizes a tracer is built for, and the rows its callers hold.
TraceDomainSizes == {DOMAIN_SIZE, DOMAIN_SIZE + 1}

TraceRows == {[i \in 1..MIPS_COLUMNS |-> v + i] : v \in BatchValues}

\* Tracer::new: every instruction gets a witness of empty columns, each
\* allocated for domain_size scalars.
TracerNew(domain_size) ==
    [domain_size |-> domain_size,
     witness |-> [instr \in Instructions |-> [i \in 1..MIPS_COLUMNS |-> <<>>]]]

\* Vec::capacity of a column: what Vec::with_capacity(domain_size) allocated,
\* since no column outgrows it.
Capacity(t) == t.domain_size

\* push_row: a column takes its value of the row while it has room.
PushRowNoCapacityCheck(t, instr, row) ==
    [t EXCEPT !.witness[instr] =
        [i \in 1..MIPS_COLUMNS |-> Append(@[i], row[i])]]

PushRow(t, instr, row) ==
    [t EXCEPT !.witness[instr] =
        [i \in 1..MIPS_COLUMNS |->
            IF Len(@[i]) < Capacity(t) THEN Append(@[i], row[i]) ELSE @[i]]]

\* self.domain_size - self.witness[&step].cols[0].len()
RowsToAddOffByOne(t, step) == t.domain_size - Len(t.witness[step][1]) - 1

RowsToAdd(t, step) == t.domain_size - Len(t.witness[step][1])

\* for _ in 0..count { self.push_row(step, row) }
RECURSIVE PushRows(_, _, _, _)
PushRows(t, step, row, count) ==
    IF count <= 0 THEN t
    ELSE PushRows(PushRow(t, step, row), step, row, count - 1)

\* pad_with_row, pad_with_zeros, pad_dummy: the tracer after the call and
\* the count the call returns.
PadWithRow(t, step, row) ==
    [trace |-> PushRows(t, step, row, RowsToAdd(t, step)),
     returned |-> RowsToAdd(t, step)]

PadWithZeros(t, instr) ==
    [trace |-> [t EXCEPT !.witness[instr] =
                   [i \in 1..MIPS_COLUMNS |->
                       @[i] \o [k \in 1..RowsToAdd(t, instr) |-> 0]]],
     returned |-> RowsToAdd(t, instr)]

\* Trace::in_circuit: the step has a row.
InCircuit(t, step) == t.witness[step][1] # <<>>

PadDummyLastRow(t, step) ==
    IF ~InCircuit(t, step) THEN [trace |-> t, returned |-> 0]
    ELSE PadWithRow(t, step,
             [i \in 1..MIPS_COLUMNS |->
                 t.witness[step][i][Len(t.witness[step][i])]])

PadDummy(t, step) ==
    IF ~InCircuit(t, step) THEN [trace |-> t, returned |-> 0]
    ELSE PadWithRow(t, step, [i \in 1..MIPS_COLUMNS |-> t.witness[step][i][1]])

\* pad_witnesses: pad_dummy for the first count instructions, in order.
RECURSIVE PadWitnesses(_, _)
PadWitnesses(t, count) ==
    IF count = 0 THEN t
    ELSE PadDummy(PadWitnesses(t, count - 1), InstructionOrder[count]).trace

InitTrace ==
    /\ srs = SrsCreate(CHOOSE x \in ToxicWaste : TRUE)
    /\ accumulator = KeccakDefault
    /\ acc0 = accumulator
    /\ folded = <<>>
    /\ call = NoCall
    /\ prv = NoProve
    /\ vrf = NoVerify
    /\ proved = NoProve
    /\ env = NoEnv
    /\ ev = NoEval
    /\ \E domain_size \in TraceDomainSizes : trace = TracerNew(domain_size)
    /\ traced = NoTraced
    /\ ff = NoFf

\* The calls of the tracer; traced keeps the call's arguments, the witnesses
\* before it and what it returned.
PushRowCall(instr, row) ==
    /\ trace' = PushRow(trace, instr, row)
    /\ traced' = [op |-> "push_row", step |-> instr, row |-> row,
                  before |-> trace.witness, returned |-> 0]
    /\ UNCHANGED <<srs, accumulator, acc0, folded, call, prv, vrf, proved, env,
                   ev, ff>>

PadWithRowCall(step, row) ==
    /\ trace' = PadWithRow(trace, step, row).trace
    /\ traced' = [op |-> "pad_with_row", step |-> step, row |-> row,
                  before |-> trace.witness,
                  returned |-> PadWithRow(trace, step, row).returned]
    /\ UNCHANGED <<srs, accumulator, acc0, folded, call, prv, vrf, proved, env,
                   ev, ff>>

PadWithZerosCall(instr) ==
    /\ trace' = PadWithZeros(trace, instr).trace
    /\ traced' = [op |-> "pad_with_zeros", step |-> instr, row |-> <<>>,
                  before |-> trace.witness,
                  returned |-> PadWithZeros(trace, instr).returned]
    /\ UNCHANGED <<srs, accumulator, acc0, folded, call, prv, vrf, proved, env,
                   ev, ff>>

PadDummyCall(step) ==
    /\ trace' = PadDummy(trace, step).trace
    /\ traced' = [op |-> "pad_dummy", step |-> step, row |-> <<>>,
                  before |-> trace.witness,
                  returned |-> PadDummy(trace, step).returned]
    /\ UNCHANGED <<srs, accumulator, acc0, folded, call, prv, vrf, proved, env,
                   ev, ff>>

PadWitnessesCall ==
    /\ trace' = PadWitnesses(trace, Len(InstructionOrder))
    /\ traced' = [op |-> "pad_witnesses", step |-> "none", row |-> <<>>,
                  before |-> trace.witness, returned |-> 0]
    /\ UNCHANGED <<srs, accumulator, acc0, folded, call, prv, vrf, proved, env,
                   ev, ff>>

NextTrace ==
    \/ \E instr \in Instructions, row \in TraceRows : PushRowCall(instr, row)
    \/ \E step \in Instructions, row \in TraceRows : PadWithRowCall(step, row)
    \/ \E instr \in Instructions : PadWithZerosCall(instr)
    \/ \E step \in Instructions : PadDummyCall(step)
    \/ PadWitnessesCall

SpecTrace == InitTrace /\ [][NextTrace]_vars

---------------------------------------------------------------------------
(***************************************************************************)
(* The helpers of kimchi/src/tests/foreign_field_mul.rs.  A foreign field   *)
(* element is a natural number below 2^t, t = 3 limbs, written in limbs of  *)
(* LimbBits bits; a compact limb is two limbs wide.                         *)
(***************************************************************************)

\* The width of a limb (o1_utils::foreign_field::LIMB_BITS), and
\* BigUint::two_to_limb() and two_to_2limb() as TwoToLimbs(1), TwoToLimbs(2).
LimbBits == 2

TwoToLimbs(count) == 2 ^ (count * LimbBits)

\* The foreign field moduli a caller passes: every number up to 2^t.
ForeignModuli == 0..TwoToLimbs(3)

\* A call returns Ok(value) or Err(message), or it aborts with a message.
FfOutcome(kind, value, message) ==
    [kind |-> kind, value |-> value, message |-> message]

\* rng.gen_biguint_range(start, stop): any number of start..stop-1; on an
\* empty range the call aborts, written as the draw -1.
GenBiguintRange(start, stop) ==
    IF start < stop THEN start..(stop - 1) ELSE {-1}

\* rand_foreign_field_element_with_bound_overflows(rng, foreign_field_modulus):
\* every outcome some state of the generator gives.
RandForeignFieldElementWithBoundOverflows(foreign_field_modulus) ==
    IF foreign_field_modulus < TwoToLimbs(2)
    THEN {FfOutcome("Err", 0, "Foreign field modulus too small")}
    ELSE
    LET negated == TwoToLimbs(3) - foreign_field_modulus
        neg_foreign_field_modulus ==
            <<negated % TwoToLimbs(2), negated \div TwoToLimbs(2)>>
        Aborted == {FfOutcome("Panic", 0, "empty range")}
        Second(x0) ==
            LET o0 == (x0 + neg_foreign_field_modulus[1]) \div TwoToLimbs(2)
                bound == TwoToLimbs(1) - o0 - neg_foreign_field_modulus[2]
                room == (foreign_field_modulus - x0) \div TwoToLimbs(2)
            IN  UNION {IF x1 = -1 THEN Aborted
                       ELSE {FfOutcome("Ok", x0 + TwoToLimbs(2) * x1, "")} :
                       x1 \in GenBiguintRange(
                                  0, IF bound < room THEN bound ELSE room)}
    IN  IF neg_foreign_field_modulus[1] = 0
        THEN {FfOutcome("Err", 0, "Overflow not possible")}
        ELSE UNION {IF x0 = -1 THEN Aborted ELSE Second(x0) :
                    x0 \in GenBiguintRange(
                               TwoToLimbs(2) - neg_foreign_field_modulus[1],
                               TwoToLimbs(2))}

\* The gates of the rows of the witness, and what verify_witness returns on
\* a row: Ok(()) or Err(CircuitGateError::Constraint(gate type, index)).
GateTypes == <<"ForeignFieldMul", "Zero">>

VerifyWitnessResults ==
    {results \in
        [1..Len(GateTypes) ->
            {FfOutcome("Ok", 0, "")} \cup
            {FfOutcome("Err", index, GateTypes[row]) :
                index \in {1, 2}, row \in 1..Len(GateTypes)}] :
        \A row \in 1..Len(GateTypes) :
            results[row].kind = "Err" => results[row].message = GateTypes[row]}

\* for row in 0..witness[0].len() { if result.is_err() { return } }: the
\* result of the first row whose verification fails, Ok(()) when none does.
LastFailing(results) ==
    LET failing == {row \in DOMAIN results : results[row].kind = "Err"}
    IN  IF failing = {} THEN FfOutcome("Ok", 0, "")
        ELSE results[CHOOSE row \in failing : \A r \in failing : r <= row]

FirstFailing(results) ==
    LET failing == {row \in DOMAIN results : results[row].kind = "Err"}
    IN  IF failing = {} THEN FfOutcome("Ok", 0, "")
        ELSE results[CHOOSE row \in failing : \A r \in failing : row <= r]

\* run_test from the verification of the witness on: before and after are
\* what verify_witness returns on the rows of the witness before and after
\* the cell invalidate is changed, proves says which of the two
\* prove_and_verify calls of the full mode pass.
RunTest(full, witness, invalidate, before, after, proves) ==
    LET invalidated ==
            [witness EXCEPT ![invalidate[2]][invalidate[1]] = FAdd(@, 1)]
    IN  IF FirstFailing(before).kind = "Err"
        THEN [result |-> FirstFailing(before), witness |-> witness]
        ELSE IF full /\ ~proves[1]
        THEN [result |-> FfOutcome("Panic", 0, "prove_and_verify"),
              witness |-> witness]
        ELSE IF invalidate = <<>>
        THEN [result |-> FfOutcome("Ok", 0, ""), witness |-> witness]
        ELSE IF FirstFailing(after).kind = "Err"
        THEN [result |-> FirstFailing(after), witness |-> invalidated]
        ELSE IF full /\ ~proves[2]
        THEN [result |-> FfOutcome("Panic", 0, "prove_and_verify"),
              witness |-> invalidated]
        ELSE [result |-> FfOutcome("Ok", 0, ""), witness |-> invalidated]

InitFf ==
    /\ srs = SrsCreate(CHOOSE x \in ToxicWaste : TRUE)
    /\ accumulator = KeccakDefault
    /\ acc0 = accumulator
    /\ folded = <<>>
    /\ call = NoCall
    /\ prv = NoProve
    /\ vrf = NoVerify
    /\ proved = NoProve
    /\ env = NoEnv
    /\ ev = NoEval
    /\ trace = NoTrace
    /\ traced = NoTraced
    /\ ff = NoFf

\* A call of rand_foreign_field_element_with_bound_overflows on some modulus.
RandForeignFieldElementWithBoundOverflowsCall ==
    /\ ff.op = "none"
    /\ \E foreign_field_modulus \in ForeignModuli :
          \E output \in
              RandForeignFieldElementWithBoundOverflows(foreign_field_modulus) :
              ff' = [op |-> "rand_foreign_field_element_with_bound_overflows",
                     input |-> <<foreign_field_modulus>>,
                     output |-> output]
    /\ UNCHANGED <<srs, accumulator, acc0, folded, call, prv, vrf, proved, env,
                   ev, trace, traced>>

\* A call of run_test on a witness[col][row] of two columns, with or without
\* a cell (row, col) to invalidate.
RunTestCall ==
    /\ ff.op = "none"
    /\ \E full \in BOOLEAN,
          witness \in [1..2 -> [1..Len(GateTypes) -> BatchValues]],
          invalidate \in {<<>>} \cup (1..Len(GateTypes)) \X (1..2),
          before \in VerifyWitnessResults, after \in VerifyWitnessResults,
          proves \in [1..2 -> BOOLEAN] :
          ff' = [op |-> "run_test",
                 input |-> [full |-> full, witness |-> witness,
                            invalidate |-> invalidate, before |-> before,
                            after |-> after, proves |-> proves],
                 output |-> RunTest(full, witness, invalidate, before, after,
                                    proves)]
    /\ UNCHANGED <<srs, accumulator, acc0, folded, call, prv, vrf, proved, env,
                   ev, trace, traced>>

NextFf ==
    \/ RandForeignFieldElementWithBoundOverflowsCall
    \/ RunTestCall

SpecFf == InitFf /\ [][NextFf]_vars

---------------------------------------------------------------------------
(* Properties of fold, checked under SpecFold.                             *)

\* The record of the fold call that returned last.
LastFold == folded[Len(folded)]

\* The product of the challenges of the fold calls lo..hi of f.
RECURSIVE ChallengeProduct(_, _, _)
ChallengeProduct(f, lo, hi) ==
    IF lo > hi THEN 1
    ELSE FMul(f[hi].challenge, ChallengeProduct(f, lo, hi - 1))

\* C1: after a fold call has returned, every cell of the accumulator is the
\* cell of the new batch plus the call's scaling challenge times the cell the
\* accumulator held before the call.
C1_FoldRecursion ==
    folded # <<>> =>
        \A c \in KeccakColumnSet : \A i \in Rows :
            accumulator[c][i] =
                (LastFold.inputs[c][i]
                    + LastFold.challenge * LastFold.old[c][i]) % FieldModulus

\* A fold with a challenge other than 0 and 1 of a batch and an accumulator
\* that differ in a non-zero cell.
C1_Witness ==
    /\ folded # <<>>
    /\ LastFold.challenge \notin {0, 1}
    /\ \E c \in KeccakColumnSet : \E i \in Rows :
          /\ LastFold.inputs[c][i] # 0
          /\ LastFold.old[c][i] # 0
          /\ LastFold.inputs[c][i] # LastFold.old[c][i]

\* C2: after k fold calls, k >= 0, every cell of the accumulator is the first
\* accumulator's cell times the product of all k challenges, plus for each
\* batch its cell times the product of the challenges of the later calls.
C2_FoldClosedForm ==
    LET k == Len(folded)
    IN  \A c \in KeccakColumnSet : \A i \in Rows :
            accumulator[c][i] =
                FAdd(FMul(acc0[c][i], ChallengeProduct(folded, 1, k)),
                     FSum([m \in 1..k |->
                              FMul(folded[m].inputs[c][i],
                                   ChallengeProduct(folded, m + 1, k))], k))

\* Two folds with different challenges, neither 0 nor 1, into an accumulator
\* with a non-zero cell whose new cells are non-zero and differ.
C2_Witness ==
    /\ Len(folded) = 2
    /\ folded[1].challenge \notin {0, 1}
    /\ folded[2].challenge \notin {0, 1}
    /\ folded[1].challenge # folded[2].challenge
    /\ \E c \in KeccakColumnSet : \E i \in Rows :
          /\ acc0[c][i] # 0
          /\ folded[1].inputs[c][i] # 0
          /\ folded[2].inputs[c][i] # 0
          /\ folded[1].inputs[c][i] # folded[2].inputs[c][i]

\* C3: a fold whose scaling challenge is zero leaves the accumulator equal to
\* the new batch, in every column and row.
C3_ZeroChallenge ==
    (folded # <<>> /\ LastFold.challenge = 0) =>
        accumulator = LastFold.inputs

\* A fold with challenge zero over an accumulator that differs from the batch
\* in every cell.
C3_Witness ==
    /\ folded # <<>>
    /\ LastFold.challenge = 0
    /\ \A c \in KeccakColumnSet : \A i \in Rows :
          LastFold.old[c][i] # LastFold.inputs[c][i]

\* The scenario of C4: a fresh accumulator, then the batch of ones, then the
\* batch of twos.
C4_Scenario ==
    /\ acc0 = KeccakDefault
    /\ Len(folded) = 2
    /\ folded[1].inputs = ConstantBatch(1)
    /\ folded[2].inputs = ConstantBatch(2)

\* C4 as claimed: in the scenario every cell of every column is 2 + r, r the
\* second fold's challenge.
C4_Claimed ==
    C4_Scenario =>
        \A c \in KeccakColumnSet : \A i \in Rows :
            accumulator[c][i] = FAdd(2, folded[2].challenge)

\* C4, amended: in the scenario every cell of a column that is zero in a fresh
\* accumulator is 2 + r, and every cell of two_to_pad, which is one in a fresh
\* accumulator, is 2 + r * (1 + r1), r1 the first fold's challenge.
C4_FreshScenario ==
    C4_Scenario =>
        \A c \in KeccakColumnSet : \A i \in Rows :
            accumulator[c][i] =
                IF c = "two_to_pad"
                THEN FAdd(2, FMul(folded[2].challenge,
                                  FAdd(1, folded[1].challenge)))
                ELSE FAdd(2, folded[2].challenge)

\* The scenario with both challenges non-zero.
C4_Witness ==
    /\ C4_Scenario
    /\ folded[1].challenge # 0
    /\ folded[2].challenge # 0

\* C6: the commitment to each accumulator column after a fold is the
\* commitment fold made to the new column plus the challenge times the
\* commitment to the old accumulator column; after k folds it is the
\* combination of the commitment to the first accumulator and of the k
\* batches' commitments whose coefficients are the products of the challenges.
C6_CommitmentHomomorphism ==
    LET k == Len(folded)
    IN  \A c \in KeccakColumnSet :
            /\ k > 0 =>
                  CommitEvaluationsNonHiding(srs, accumulator[c]) =
                      FAdd(LastFold.commitments[c],
                           FMul(LastFold.challenge,
                                CommitEvaluationsNonHiding(srs, LastFold.old[c])))
            /\ CommitEvaluationsNonHiding(srs, accumulator[c]) =
                  FAdd(FMul(CommitEvaluationsNonHiding(srs, acc0[c]),
                            ChallengeProduct(folded, 1, k)),
                       FSum([m \in 1..k |->
                                FMul(folded[m].commitments[c],
                                     ChallengeProduct(folded, m + 1, k))], k))

\* Two folds with challenges other than 0 and 1 where the commitments to the
\* first accumulator column and to both new columns are non-zero.
C6_Witness ==
    /\ Len(folded) = 2
    /\ folded[1].challenge \notin {0, 1}
    /\ folded[2].challenge \notin {0, 1}
    /\ \E c \in KeccakColumnSet :
          /\ CommitEvaluationsNonHiding(srs, acc0[c]) # 0
          /\ folded[1].commitments[c] # 0
          /\ folded[2].commitments[c] # 0
          /\ folded[1].commitments[c] # folded[2].commitments[c]

---------------------------------------------------------------------------
(* Properties of the steps of fold, checked under SpecFoldSteps.           *)

\* The transcript of a sponge that was made, absorbed the commitments to the
\* columns of inputs in column order and was squeezed once.
FoldTranscript(inputs) ==
    <<[op |-> "new", x |-> 1]>>
        \o [k \in 1..Len(KeccakColumnOrder) |->
               [op |-> "absorb",
                x |-> CommitEvaluationsNonHiding(srs, inputs[KeccakColumnOrder[k]])]]
        \o <<[op |-> "squeeze", x |-> 0]>>

\* C5: in a fold call, what the sponge has absorbed is at every moment the
\* commitments to the first new columns in column order, each made before it
\* was absorbed; once the scaling challenge is squeezed the sponge has
\* absorbed the commitments to all new columns, in column order, before the
\* squeeze; and until the challenge is squeezed no accumulator cell has
\* changed.
C5_FoldOrder ==
    call.pc # 0 =>
        /\ \A k \in 1..call.absorbed :
              /\ KeccakColumnOrder[k] \in DOMAIN call.commitments
              /\ 1 + k <= Len(call.fq_sponge)
              /\ call.fq_sponge[1 + k] =
                    [op |-> "absorb",
                     x |-> CommitEvaluationsNonHiding(
                               srs, call.inputs[KeccakColumnOrder[k]])]
        /\ call.scaling_challenge # -1 =>
              /\ call.fq_sponge = FoldTranscript(call.inputs)
              /\ call.scaling_challenge = ToField(SpongeState(call.fq_sponge))
        /\ call.scaling_challenge = -1 => accumulator = call.old

\* A call that has squeezed a challenge other than 0 and 1 from two different
\* non-zero commitments and has written some cell but not all.
C5_Witness ==
    /\ FoldStage = "combine"
    /\ call.scaling_challenge \notin {0, 1}
    /\ call.done # {}
    /\ accumulator # call.old
    /\ call.commitments["hash_index"] # 0
    /\ call.commitments["two_to_pad"] # 0
    /\ call.commitments["hash_index"] # call.commitments["two_to_pad"]

\* C22: the parallel workers of fold do not affect its result.  The
\* commitments of all new columns are collected before the sponge is made and
\* anything is absorbed; the challenge squeezed is the one a sequential fold
\* squeezes; at every moment a cell a worker has written holds the
\* combination of its own old value, its input cell and that challenge, and
\* every other cell its old value; and whatever order the workers ran in, the
\* accumulator fold returns with is the one of the sequential fold.
C22_ParallelDeterminism ==
    call.pc # 0 =>
        LET sequential ==
                ScalingChallenge(
                    AbsorbCommitments(FqSpongeNew,
                                      FoldCommitments(srs, call.inputs),
                                      Len(KeccakColumnOrder)))
        IN  /\ FoldStage = "commit" => (call.absorbed = 0 /\ call.fq_sponge = <<>>)
            /\ FoldStage # "commit" =>
                   call.commitments = FoldCommitments(srs, call.inputs)
            /\ call.scaling_challenge # -1 => call.scaling_challenge = sequential
            /\ call.done # {} => call.scaling_challenge # -1
            /\ \A c \in KeccakColumnSet : \A i \in Rows :
                   accumulator[c][i] =
                       IF <<c, i>> \in call.done
                       THEN FoldCell(call.inputs[c][i], sequential, call.old[c][i])
                       ELSE call.old[c][i]
            /\ FoldStage = "return" =>
                   accumulator = FoldAccumulator(call.old, call.inputs, sequential)

\* The workers have written the last cell of the last column and not yet the
\* first, with a challenge other than 0 and 1.
C22_Witness ==
    /\ FoldStage = "combine"
    /\ call.scaling_challenge \notin {0, 1}
    /\ call.done = {<<KeccakColumnOrder[Len(KeccakColumnOrder)], DOMAIN_SIZE>>}
    /\ accumulator # call.old
    /\ call.old[KeccakColumnOrder[Len(KeccakColumnOrder)]][1]
           # call.old[KeccakColumnOrder[Len(KeccakColumnOrder)]][DOMAIN_SIZE]

\* C26: the scaling challenge of a fold call depends on the new columns
\* only.  The commitments a call absorbs are those of its new columns, and
\* two calls of a session (same domain, same setup) with the same new columns
\* squeeze the same challenge, whatever the accumulator held.
C26_ChallengeFromNewColumns ==
    /\ \A j \in 1..Len(folded) : \A c \in KeccakColumnSet :
          folded[j].commitments[c] =
              CommitEvaluationsNonHiding(srs, folded[j].inputs[c])
    /\ \A j, k \in 1..Len(folded) :
          folded[j].inputs = folded[k].inputs =>
              /\ folded[j].commitments = folded[k].commitments
              /\ folded[j].challenge = folded[k].challenge

\* Two calls with the same new columns on accumulators whose commitments
\* differ.
C26_Witness ==
    /\ Len(folded) = 2
    /\ folded[1].inputs = folded[2].inputs
    /\ folded[1].old # folded[2].old
    /\ folded[1].challenge \notin {0, 1}
    /\ \E c \in KeccakColumnSet :
          CommitEvaluationsNonHiding(srs, folded[1].old[c])
              # CommitEvaluationsNonHiding(srs, folded[2].old[c])

---------------------------------------------------------------------------
(* Properties of prove and verify, checked under SpecProve.                *)

\* A squeeze, as a transcript records it.
SqueezeEntry == [op |-> "squeeze", x |-> 0]

\* The transcript of a sponge made with parameters params that absorbed the
\* elements of xs in order.
Absorbed(params, xs) ==
    <<[op |-> "new", x |-> params]>>
        \o [k \in 1..Len(xs) |-> [op |-> "absorb", x |-> xs[k]]]

\* The polynomial of column k of the witness of the running prove call.
WitnessPoly(k) == Interpolate(prv.evaluations[ProveColumns[k]])

\* What prove has to absorb into the first oracle: the commitments to the
\* witness columns in declared order.
WitnessCommitments ==
    [k \in 1..Len(ProveColumns) |-> CommitNonHiding(srs, WitnessPoly(k))]

\* The first oracle of prove after zeta was squeezed, and zeta.
FqAfterZeta == Absorbed(1, WitnessCommitments) \o <<SqueezeEntry>>

WitnessZeta == ToField(SpongeState(FqAfterZeta))

\* What prove has to absorb into the second oracle: the first oracle's
\* digest, then per column in declared order the evaluation at zeta and the
\* evaluation at zeta * omega.
WitnessFrInputs(m) ==
    <<SpongeState(FqAfterZeta \o <<SqueezeEntry>>)>>
        \o [j \in 1..(2 * m) |->
               IF j % 2 = 1
               THEN Evaluate(WitnessPoly((j + 1) \div 2), WitnessZeta)
               ELSE Evaluate(WitnessPoly(j \div 2), FMul(WitnessZeta, Omega))]

\* C7: verify returns true for the proof prove returned, for every witness
\* whose columns have the domain size and every setup.
C7_RoundTrip ==
    VerifyStage = "returned" => vrf.result = TRUE

\* A verify call that has returned for a witness with a column that is not
\* constant and with columns whose commitments differ.
C7_Witness ==
    /\ VerifyStage = "returned"
    /\ vrf.result = TRUE
    /\ \E c \in KeccakColumnSet : prv.evaluations[c][1] # prv.evaluations[c][2]
    /\ vrf.proof.commitments["hash_index"] # vrf.proof.commitments["two_to_pad"]

\* The transcripts a verifier that reads the proof alone ends with.
ProofCommitments(proof) ==
    [k \in 1..Len(KeccakColumnOrder) |-> proof.commitments[KeccakColumnOrder[k]]]

ProofFq(proof) ==
    Absorbed(1, ProofCommitments(proof)) \o <<SqueezeEntry, SqueezeEntry>>

ProofFr(proof) ==
    Absorbed(2,
        <<SpongeState(ProofFq(proof))>>
            \o [j \in 1..(2 * Len(KeccakColumnOrder)) |->
                   IF j % 2 = 1
                   THEN proof.zeta_evaluations[KeccakColumnOrder[(j + 1) \div 2]]
                   ELSE proof.zeta_omega_evaluations[KeccakColumnOrder[j \div 2]]])
        \o <<SqueezeEntry, SqueezeEntry>>

\* s is an initial part of t.
IsPrefix(s, t) == Len(s) <= Len(t) /\ s = SubSeq(t, 1, Len(s))

\* C8: verify derives the zeta, zeta * omega, v and u that prove derived, its
\* sponges see at every moment an initial part of what prove's sponges saw
\* and in the end the same, and what they see is the proof's commitments and
\* the proof's pairs of evaluations in column order: nothing of the witness.
C8_VerifierReplays ==
    vrf.pc # 0 =>
        /\ IsPrefix(vrf.fq_sponge, prv.fq_sponge)
        /\ IsPrefix(vrf.fr_sponge, prv.fr_sponge)
        /\ IsPrefix(vrf.fq_sponge, ProofFq(vrf.proof))
        /\ IsPrefix(vrf.fr_sponge, ProofFr(vrf.proof))
        /\ vrf.zeta # -1 => vrf.zeta = prv.zeta /\ vrf.zeta_omega = prv.zeta_omega
        /\ vrf.v # -1 => vrf.v = prv.v
        /\ vrf.u # -1 => vrf.u = prv.u
        /\ VerifyStage = "returned" =>
              /\ vrf.fq_sponge = prv.fq_sponge
              /\ vrf.fr_sponge = prv.fr_sponge
              /\ vrf.fq_sponge = ProofFq(vrf.proof)
              /\ vrf.fr_sponge = ProofFr(vrf.proof)
              /\ vrf.zeta # -1 /\ vrf.v # -1 /\ vrf.u # -1

\* A verify call that has returned for a proof with different v and u and a
\* column whose two evaluations differ.
C8_Witness ==
    /\ VerifyStage = "returned"
    /\ vrf.v # vrf.u
    /\ \E c \in KeccakColumnSet :
          vrf.proof.zeta_evaluations[c] # vrf.proof.zeta_omega_evaluations[c]

\* C9: in prove the first oracle absorbs the commitments in declared column
\* order and nothing else before zeta is squeezed; zeta * omega is computed
\* from that zeta; the second oracle starts from the first one's digest and
\* absorbs, only once zeta is fixed, the pairs (evaluation at zeta,
\* evaluation at zeta * omega) in the same column order; v is squeezed after
\* all pairs and u after v.
C9_ProveTranscriptOrder ==
    prv.pc # 0 =>
        LET n == Len(ProveColumns)
            m == prv.absorbed_evaluations
        IN  /\ (prv.fq_sponge # <<>> /\ prv.zeta = -1) =>
                  prv.fq_sponge =
                      Absorbed(1, SubSeq(WitnessCommitments, 1, prv.absorbed))
            /\ prv.zeta # -1 =>
                  /\ prv.absorbed = n
                  /\ IsPrefix(FqAfterZeta, prv.fq_sponge)
                  /\ prv.zeta = WitnessZeta
                  /\ prv.zeta_omega = FMul(WitnessZeta, Omega)
            /\ prv.fr_sponge # <<>> =>
                  /\ prv.zeta # -1
                  /\ prv.fq_sponge = FqAfterZeta \o <<SqueezeEntry>>
                  /\ IsPrefix(Absorbed(2, WitnessFrInputs(m)), prv.fr_sponge)
            /\ (prv.fr_sponge # <<>> /\ prv.v = -1 /\ prv.u = -1) =>
                  prv.fr_sponge = Absorbed(2, WitnessFrInputs(m))
            /\ prv.v # -1 =>
                  /\ m = n
                  /\ prv.v = ToField(SpongeState(
                         Absorbed(2, WitnessFrInputs(n)) \o <<SqueezeEntry>>))
            /\ prv.u # -1 =>
                  /\ prv.v # -1
                  /\ prv.u = ToField(SpongeState(
                         Absorbed(2, WitnessFrInputs(n))
                             \o <<SqueezeEntry, SqueezeEntry>>))
                  /\ prv.fr_sponge =
                         Absorbed(2, WitnessFrInputs(n))
                             \o <<SqueezeEntry, SqueezeEntry>>

\* An MSM prove call that has squeezed different v and u over columns with
\* different commitments, one of them with different evaluations at the two
\* points.
C9_Witness ==
    /\ prv.circuit = "msm"
    /\ prv.u # -1
    /\ prv.v # prv.u
    /\ prv.commitments["x0"] # prv.commitments["x1"]
    /\ \E c \in ColumnSet("msm") :
          prv.zeta_evaluations[c] # prv.zeta_omega_evaluations[c]

\* C10: the sponge prove hands to the opening-proof generator, and the sponge
\* verify places into the batch, is the first oracle as it is after it
\* absorbed all commitments and zeta was squeezed from it: it is captured
\* before the second oracle exists, so before the digest is taken and before
\* an evaluation is absorbed, and prover and verifier pass the same state.
C10_SpongeBeforeEvaluations ==
    /\ prv.pc # 0 =>
          /\ prv.fq_sponge_before_evaluations = <<>> => prv.fr_sponge = <<>>
          /\ prv.fq_sponge_before_evaluations # <<>> =>
                prv.fq_sponge_before_evaluations = FqAfterZeta
          /\ DOMAIN prv.opening_proof # {} =>
                prv.opening_proof.sponge = FqAfterZeta
    /\ vrf.pc # 0 =>
          /\ vrf.fq_sponge_before_evaluations = <<>> => vrf.fr_sponge = <<>>
          /\ vrf.fq_sponge_before_evaluations # <<>> =>
                vrf.fq_sponge_before_evaluations = prv.fq_sponge_before_evaluations
          /\ DOMAIN vrf.batch # {} =>
                /\ vrf.batch.sponge = prv.opening_proof.sponge
                /\ vrf.batch.sponge = FqAfterZeta

\* A verify call that has built its batch, after a prove call whose first
\* oracle went on past the captured state.
C10_Witness ==
    /\ VerifyStage = "returned"
    /\ DOMAIN vrf.batch # {}
    /\ vrf.batch.sponge = prv.opening_proof.sponge
    /\ prv.fq_sponge # prv.fq_sponge_before_evaluations
    /\ prv.commitments["hash_index"] # prv.commitments["two_to_pad"]

\* C11: the proof prove returns holds for exactly the named columns of the
\* circuit, which are the columns of the witness, one commitment, one
\* evaluation at zeta and one evaluation at zeta * omega each, and they are
\* the commitment to and the evaluations of the polynomial interpolated from
\* that column; the three collections have as many entries as the witness has
\* columns.
C11_ProofShape ==
    ProveStage = "returned" =>
        LET proof == prv.proof
            columns == ColumnSet(prv.circuit)
            n == Cardinality(DOMAIN prv.evaluations)
        IN  /\ DOMAIN prv.evaluations = columns
            /\ DOMAIN proof.commitments = columns
            /\ DOMAIN proof.zeta_evaluations = columns
            /\ DOMAIN proof.zeta_omega_evaluations = columns
            /\ n = Len(ColumnOrder(prv.circuit))
            /\ Cardinality(DOMAIN proof.commitments) = n
            /\ Cardinality(DOMAIN proof.zeta_evaluations) = n
            /\ Cardinality(DOMAIN proof.zeta_omega_evaluations) = n
            /\ \A k \in 1..Len(ProveColumns) :
                  LET c == ProveColumns[k]
                  IN  /\ proof.commitments[c] =
                             CommitNonHiding(srs, WitnessPoly(k))
                      /\ proof.zeta_evaluations[c] =
                             Evaluate(WitnessPoly(k), WitnessZeta)
                      /\ proof.zeta_omega_evaluations[c] =
                             Evaluate(WitnessPoly(k), FMul(WitnessZeta, Omega))

\* A proof of the MSM prover for columns with different commitments, one of
\* them with different evaluations at the two points.
C11_Witness ==
    /\ ProveStage = "returned"
    /\ prv.circuit = "msm"
    /\ prv.proof.commitments["x0"] # prv.proof.commitments["x1"]
    /\ \E c \in ColumnSet("msm") :
          prv.proof.zeta_evaluations[c] # prv.proof.zeta_omega_evaluations[c]

---------------------------------------------------------------------------
(* Properties of repeated prove calls, checked under SpecProveTwice.       *)

\* C12: a prove call that is given the circuit and the witness of the call
\* before it, under the same setup, derives the same commitments, zeta, v and
\* u, and its oracles see the same, whatever the opening-proof step of either
\* call drew; and whatever the witnesses, calls whose first oracles absorbed
\* the same commitments squeeze the same zeta, and if their second oracles
\* also absorbed the same evaluations they squeeze the same v and u.
C12_TranscriptDeterminism ==
    (prv.pc # 0 /\ proved.pc # 0 /\ ProveStage # "returned") =>
        /\ (prv.circuit = proved.circuit /\ prv.evaluations = proved.evaluations) =>
              /\ DOMAIN prv.commitments # {} =>
                    prv.commitments = proved.commitments
              /\ prv.zeta # -1 =>
                    prv.zeta = proved.zeta /\ prv.zeta_omega = proved.zeta_omega
              /\ prv.v # -1 => prv.v = proved.v
              /\ prv.u # -1 =>
                    /\ prv.u = proved.u
                    /\ prv.fq_sponge = proved.fq_sponge
                    /\ prv.fr_sponge = proved.fr_sponge
        /\ (prv.zeta # -1 /\ prv.commitments = proved.commitments) =>
              prv.zeta = proved.zeta
        /\ (/\ prv.u # -1
            /\ prv.commitments = proved.commitments
            /\ prv.zeta_evaluations = proved.zeta_evaluations
            /\ prv.zeta_omega_evaluations = proved.zeta_omega_evaluations) =>
              prv.v = proved.v /\ prv.u = proved.u

\* A second call with the witness of the first, a column of it not constant,
\* whose opening-proof step drew another value than the first call's.
C12_Witness ==
    /\ ProveStage = "return"
    /\ proved.pc # 0
    /\ prv.evaluations = proved.evaluations
    /\ prv.opening_proof.nonce # proved.opening_proof.nonce
    /\ prv.opening_proof # proved.opening_proof
    /\ prv.v # prv.u
    /\ \E c \in DOMAIN prv.evaluations :
          prv.evaluations[c][1] # prv.evaluations[c][2]

---------------------------------------------------------------------------
(* Properties of verify for any proof, checked under SpecVerify.           *)

\* C13: verify returns false for every proof that differs from the proof
\* prove returned in one commitment, in one evaluation at zeta, in one
\* evaluation at zeta * omega, or in the opening proof.
C13_TamperDetection ==
    (VerifyStage = "returned" /\ vrf.proof # prv.proof) => vrf.result = FALSE

\* Verify calls that have returned, for a proof with a changed commitment,
\* evaluation or opening proof.
C13_Witness ==
    /\ VerifyStage = "returned"
    /\ vrf.result = FALSE
    /\ \/ vrf.proof.commitments # prv.proof.commitments
       \/ vrf.proof.zeta_omega_evaluations # prv.proof.zeta_omega_evaluations
       \/ vrf.proof.opening_proof # prv.proof.opening_proof
    /\ vrf.proof \in Tampered(prv.proof)
    /\ \E c \in KeccakColumnSet : prv.evaluations[c][1] # prv.evaluations[c][2]

\* The proof a verify call was given is invalid: the transcript it replays
\* is not the prover's, or the opening proof is rejected for its batch.
TranscriptMismatch ==
    \/ vrf.fq_sponge # prv.fq_sponge
    \/ vrf.fr_sponge # prv.fr_sponge
    \/ <<vrf.zeta, vrf.zeta_omega, vrf.v, vrf.u>>
           # <<prv.zeta, prv.zeta_omega, prv.v, prv.u>>

OpeningRejected == ~VerifyOpening(srs, vrf.batch)

\* C14: every verify call, for the proof prove returned and for every proof
\* of the same shape that differs from it, returns, and what it returns is a
\* boolean: false when the transcript does not match or the opening proof is
\* rejected.  No call stops before it returns.
C14_VerifyReturnsBoolean ==
    /\ [](VerifyStage = "returned" =>
              /\ vrf.result \in BOOLEAN
              /\ (TranscriptMismatch \/ OpeningRejected) => vrf.result = FALSE)
    /\ (vrf.pc # 0) ~> (VerifyStage = "returned")

\* Verify calls that have returned false: for a transcript that does not
\* match, and for a matching transcript whose opening proof is rejected.
C14_Witness ==
    /\ VerifyStage = "returned"
    /\ vrf.result = FALSE
    /\ DOMAIN vrf.proof.commitments = KeccakColumnSet
    /\ DOMAIN vrf.proof.zeta_evaluations = KeccakColumnSet
    /\ DOMAIN vrf.proof.zeta_omega_evaluations = KeccakColumnSet
    /\ ~TranscriptMismatch
    /\ OpeningRejected

---------------------------------------------------------------------------
(* Properties of the MSM prover for one column, checked under SpecMsm.     *)

\* The witness of one column that is zero in each of the DOMAIN_SIZE rows.
ZeroWitness == [c \in {MsmColumnOrder[1]} |-> [i \in Rows |-> 0]]

\* C15: for the witness of a single column of zero scalars, one per row of
\* the domain, prove returns a proof of one commitment and one evaluation at
\* each point; the commitment is the commitment to the zero polynomial (the
\* group's identity), both evaluations are the field's zero, and verify
\* returns true for the proof.
C15_ZeroWitness ==
    (prv.pc # 0 /\ prv.circuit = "msm" /\ prv.evaluations = ZeroWitness) =>
        /\ ProveStage = "returned" =>
              /\ DOMAIN prv.proof.commitments = {MsmColumnOrder[1]}
              /\ DOMAIN prv.proof.zeta_evaluations = {MsmColumnOrder[1]}
              /\ DOMAIN prv.proof.zeta_omega_evaluations = {MsmColumnOrder[1]}
              /\ prv.proof.commitments[MsmColumnOrder[1]] =
                     CommitNonHiding(srs, [k \in Rows |-> 0])
              /\ prv.proof.commitments[MsmColumnOrder[1]] = 0
              /\ prv.proof.zeta_evaluations[MsmColumnOrder[1]] = 0
              /\ prv.proof.zeta_omega_evaluations[MsmColumnOrder[1]] = 0
        /\ VerifyStage = "returned" => vrf.result = TRUE

\* The verify call has returned for the proof of the zero witness, whose two
\* evaluation points differ.
C15_Witness ==
    /\ prv.circuit = "msm"
    /\ prv.evaluations = ZeroWitness
    /\ VerifyStage = "returned"
    /\ vrf.proof = prv.proof
    /\ vrf.result = TRUE
    /\ vrf.zeta # vrf.zeta_omega

---------------------------------------------------------------------------
(* Properties of the expression evaluator, checked under SpecEval.         *)

\* The FoldingCompatibleExprInner that denotes the same atom as col.
CompatibleColumn(col) ==
    CASE col[1] = "Inner" -> <<"Cell", col[2], col[3]>>
      [] col[1] = "WitnessExtended" -> <<"Extensions", <<"ExtendedWitness", col[2]>>>>
      [] col[1] = "Error" -> <<"Extensions", <<"Error">>>>
      [] col[1] \in {"Alpha", "Selector"} -> <<"Extensions", col>>
      [] col[1] \in {"Constant", "Challenge"} -> col

\* The FoldingCompatibleExpr that denotes the same expression as exp.
RECURSIVE Compatible(_)
Compatible(exp) ==
    CASE exp[1] = "Atom" -> <<"Atom", CompatibleColumn(exp[2])>>
      [] exp[1] \in {"Double", "Square"} -> <<exp[1], Compatible(exp[2])>>
      [] exp[1] \in {"Add", "Sub", "Mul"} ->
             <<exp[1], Compatible(exp[2]), Compatible(exp[3])>>
      [] exp[1] = "Pow" -> <<"Pow", Compatible(exp[2]), exp[3]>>

\* Two outcomes agree: both calls abort, or they return the same leaf.
SameOutcome(a, b) == (a.kind = "Panic" /\ b.kind = "Panic") \/ a = b

\* C16 as stated: on every pair of a FoldingExp and a FoldingCompatibleExpr
\* that denote the same expression, over the same environment, the two entry
\* points return the same leaf or both fail.
C16_AgreeOnEveryPair ==
    ev.entry = "fexpr" =>
        SameOutcome(ev.result, EvalNaiveFcompat(env, Compatible(ev.exp)))

\* C16: the two entry points return the same leaf or both fail on every pair
\* of expressions that denote the same expression, unless the evaluation
\* reaches the error-column atom: eval_naive_fexpr rejects that atom, and
\* eval_naive_fcompat resolves it to the environment's error column.
C16_EntryPointsAgree ==
    ev.entry = "fexpr" =>
        LET other == EvalNaiveFcompat(env, Compatible(ev.exp))
        IN  /\ ev.result # Panic("shouldn't happen") =>
                   SameOutcome(ev.result, other)
            /\ ev.exp = <<"Atom", <<"Error">>>> =>
                   /\ ev.result = Panic("shouldn't happen")
                   /\ other = Col(env.error_vec)

C16_Witness ==
    /\ ev.entry = "fexpr"
    /\ ev.exp[1] = "Sub"
    /\ ev.exp[3][1] = "Square"
    /\ ev.result.kind = "Col"
    /\ ev.result = EvalNaiveFcompat(env, Compatible(ev.exp))

\* The entry point of the call applied to another expression.
EvalAgain(exp) ==
    IF ev.entry = "fexpr" THEN EvalNaiveFexpr(env, exp)
    ELSE EvalNaiveFcompat(env, exp)

\* C17: in both entry points Double(e) evaluates to the leaf of Add(e, e) and
\* Square(e) to the leaf of Mul(e, e), whether e evaluates to a constant or
\* to a column (then in every row).
C17_DoubleAndSquare ==
    /\ (ev.entry # "none" /\ ev.exp[1] = "Double") =>
           ev.result = EvalAgain(<<"Add", ev.exp[2], ev.exp[2]>>)
    /\ (ev.entry # "none" /\ ev.exp[1] = "Square") =>
           ev.result = EvalAgain(<<"Mul", ev.exp[2], ev.exp[2]>>)

C17_Witness ==
    /\ ev.entry = "fcompat"
    /\ ev.exp[1] = "Double"
    /\ ev.exp[2][1] = "Sub"
    /\ ev.result.kind = "Col"
    /\ ev.result.value # EvalAgain(ev.exp[2]).value

\* The nodes of an expression: the tags of the expression and of the
\* expressions below it.
RECURSIVE Nodes(_)
Nodes(exp) ==
    CASE exp[1] = "Atom" -> {"Atom"}
      [] exp[1] \in {"Double", "Square", "Pow"} -> {exp[1]} \cup Nodes(exp[2])
      [] exp[1] \in {"Add", "Sub", "Mul"} ->
             {exp[1]} \cup Nodes(exp[2]) \cup Nodes(exp[3])

\* C18: a call of eval_naive_fexpr or of eval_naive_fcompat on an expression
\* that holds a Pow node aborts and returns no leaf, whatever the exponent
\* and the expression it raises.
C18_PowRejected ==
    (ev.entry # "none" /\ "Pow" \in Nodes(ev.exp)) => ev.result.kind = "Panic"

C18_Witness ==
    /\ ev.entry = "fexpr"
    /\ ev.exp[1] = "Mul"
    /\ EvalAgain(ev.exp[2]).kind = "Col"
    /\ ev.exp[3][1] = "Pow"
    /\ ev.exp[3][3] = 1
    /\ EvalAgain(ev.exp[3][2]).kind = "Const"
    /\ ev.result = Panic("We're not supposed to use this")

\* The columns of the atoms of an expression.
RECURSIVE Columns(_)
Columns(exp) ==
    CASE exp[1] = "Atom" -> {exp[2]}
      [] exp[1] \in {"Double", "Square", "Pow"} -> Columns(exp[2])
      [] exp[1] \in {"Add", "Sub", "Mul"} -> Columns(exp[2]) \cup Columns(exp[3])

\* A reference the environment e cannot resolve: a cell of the next row, a
\* selector, an alpha or an extended column that e does not hold.
Unresolvable(e, column) ==
    LET col == IF column[1] = "Extensions" THEN column[2] ELSE column
    IN  \/ col[1] \in {"Inner", "Cell"} /\ col[3] = "Next"
        \/ col[1] = "Selector"
        \/ col[1] = "Alpha" /\ col[2] >= Len(e.alphas)
        \/ col[1] \in {"WitnessExtended", "ExtendedWitness"}
              /\ col[2] >= Len(e.extended)

\* C19: in both entry points an expression with an atom that is a witness
\* cell on the next row, a selector, an alpha index the alphas do not hold
\* or an extended-witness index the extended columns do not hold aborts the
\* call; the atom yields no leaf.
C19_FailFast ==
    (ev.entry # "none" /\ \E col \in Columns(ev.exp) : Unresolvable(env, col))
        => ev.result.kind = "Panic"

C19_Witness ==
    /\ ev.entry = "fexpr"
    /\ ev.exp[1] = "Add"
    /\ EvalAgain(ev.exp[2]).kind = "Col"
    /\ ev.exp[3] = <<"Atom", <<"Alpha", 0>>>>
    /\ env.alphas = <<>>
    /\ ev.result = Panic("alpha not present")

\* C20: a call of eval_naive_fexpr or of eval_naive_fcompat leaves the
\* environment (witness and extended columns, alphas, challenges, error
\* column, u) as it was, whether the call returns a leaf or aborts part-way
\* through the tree.
C20_ReadOnly == [][env' = env]_vars

C20_Witness ==
    /\ ev.entry = "fcompat"
    /\ env \in Envs
    /\ ev.exp[1] = "Mul"
    /\ EvalAgain(ev.exp[2]).kind = "Col"
    /\ ev.exp[3][1] = "Double"
    /\ ev.result = Panic("No selectors supported yet")

\* C25 as stated: both ways of resolving a leaf resolve the error column to
\* a column leaf that holds the environment's error column.
C25_ErrorColumnResolves ==
    /\ (ev.entry = "fexpr" /\ ev.exp = <<"Atom", <<"Error">>>>) =>
           ev.result = Col(env.error_vec)
    /\ (ev.entry = "fcompat" /\ ev.exp = <<"Atom", <<"Extensions", <<"Error">>>>>>) =>
           ev.result = Col(env.error_vec)

\* C25: eval_naive_fcompat resolves the Error extension atom to a column leaf
\* that holds the environment's error column; process_extended_folding_column
\* resolves no leaf for ExtendedFoldingColumn::Error, it aborts.
C25_ErrorColumn ==
    /\ (ev.entry = "fexpr" /\ ev.exp = <<"Atom", <<"Error">>>>) =>
           ev.result = Panic("shouldn't happen")
    /\ (ev.entry = "fcompat" /\ ev.exp = <<"Atom", <<"Extensions", <<"Error">>>>>>) =>
           /\ ev.result.kind = "Col"
           /\ ev.result.value = env.error_vec

C25_Witness ==
    /\ ev.entry = "fcompat"
    /\ ev.exp = <<"Atom", <<"Extensions", <<"Error">>>>>>
    /\ ev.result.kind = "Col"
    /\ ev.result.value # env.witness[1]
    /\ EvalNaiveFexpr(env, <<"Atom", <<"Error">>>>).kind = "Panic"

---------------------------------------------------------------------------
(* Properties of fold on a chosen domain, checked under SpecFoldDomain.    *)

\* C21 as stated: a fold call with a new column whose length differs from
\* the accumulator column's aborts and leaves every accumulator cell as it
\* was, and a fold call that returns has combined every row of every column
\* of the accumulator.
C21_AllOrNothing ==
    folded # <<>> =>
        /\ (\E c \in KeccakColumnSet :
               Len(LastFold.inputs[c]) # Len(LastFold.old[c]))
              => (~LastFold.returned /\ accumulator = LastFold.old)
        /\ ~LastFold.returned => accumulator = LastFold.old
        /\ LastFold.returned =>
              \A c \in KeccakColumnSet : \A i \in 1..Len(LastFold.old[c]) :
                  /\ i <= Len(LastFold.inputs[c])
                  /\ accumulator[c][i] =
                         FoldCell(LastFold.inputs[c][i], LastFold.challenge,
                                  LastFold.old[c][i])

---------------------------------------------------------------------------
(***************************************************************************)
(* Properties of the MIPS tracer, checked under SpecTrace.                  *)
(***************************************************************************)

\* The number of rows of a witness: the length of its first column.
RowCount(witness, step) == Len(witness[step][1])

\* C27: after Tracer::new and any sequence of push_row, pad_with_row,
\* pad_with_zeros, pad_dummy and pad_witnesses calls, all MIPS_COLUMNS
\* columns of every instruction's witness have the same length, at most
\* domain_size; and push_row on a witness that already holds domain_size
\* rows leaves it unchanged.
C27_LengthInvariant ==
    /\ \A instr \in Instructions : \A i \in 1..MIPS_COLUMNS :
          /\ Len(trace.witness[instr][i]) = RowCount(trace.witness, instr)
          /\ Len(trace.witness[instr][i]) <= trace.domain_size
    /\ (/\ traced.op = "push_row"
        /\ RowCount(traced.before, traced.step) = trace.domain_size)
           => trace.witness = traced.before

\* A row was pushed on a witness that was full of other rows.
C27_Witness ==
    /\ traced.op = "push_row"
    /\ RowCount(traced.before, traced.step) = trace.domain_size
    /\ \A k \in 1..trace.domain_size :
          traced.before[traced.step][1][k] # traced.row[1]

\* C28: pad_with_row(step, row) and pad_with_zeros(step) return domain_size
\* minus the step's row count before the call, leave every column of the
\* step with exactly domain_size entries, the rows present before unchanged
\* and every appended row equal to row (to zeros for pad_with_zeros), leave
\* the witnesses of the other steps unchanged, and return 0 without changing
\* anything when the step is already full.
C28_PadFills ==
    traced.op \in {"pad_with_row", "pad_with_zeros"} =>
        LET step == traced.step
            rows == RowCount(traced.before, step)
        IN  /\ traced.returned = trace.domain_size - rows
            /\ \A i \in 1..MIPS_COLUMNS :
                  /\ Len(trace.witness[step][i]) = trace.domain_size
                  /\ \A k \in 1..rows :
                        trace.witness[step][i][k] = traced.before[step][i][k]
                  /\ \A k \in (rows + 1)..trace.domain_size :
                        trace.witness[step][i][k] =
                            IF traced.op = "pad_with_row" THEN traced.row[i]
                            ELSE 0
            /\ \A instr \in Instructions \ {step} :
                  trace.witness[instr] = traced.before[instr]
            /\ rows = trace.domain_size =>
                  /\ traced.returned = 0
                  /\ trace.witness = traced.before

\* pad_with_row filled a step that held one row, a different one, while the
\* other step held rows too.
C28_Witness ==
    /\ traced.op = "pad_with_row"
    /\ RowCount(traced.before, traced.step) = 1
    /\ traced.before[traced.step][1][1] # traced.row[1]
    /\ traced.returned > 1
    /\ \E instr \in Instructions \ {traced.step} :
          RowCount(traced.before, instr) = 1

\* C29: pad_dummy(step) returns 0 and changes nothing when the step has no
\* rows, and otherwise fills the step's witness up to domain_size rows with
\* copies of its first row and returns the number of rows added; after
\* pad_witnesses every instruction's witness has 0 rows or exactly
\* domain_size rows, and no row pushed before is changed.
C29_PadDummy ==
    /\ traced.op = "pad_dummy" =>
          LET step == traced.step
              rows == RowCount(traced.before, step)
          IN  IF rows = 0
              THEN /\ traced.returned = 0
                   /\ trace.witness = traced.before
              ELSE /\ traced.returned = trace.domain_size - rows
                   /\ \A i \in 1..MIPS_COLUMNS :
                         /\ Len(trace.witness[step][i]) = trace.domain_size
                         /\ \A k \in 1..rows :
                               trace.witness[step][i][k] =
                                   traced.before[step][i][k]
                         /\ \A k \in (rows + 1)..trace.domain_size :
                               trace.witness[step][i][k] =
                                   traced.before[step][i][1]
    /\ traced.op = "pad_witnesses" =>
          \A instr \in Instructions :
              /\ RowCount(trace.witness, instr) \in {0, trace.domain_size}
              /\ \A i \in 1..MIPS_COLUMNS :
                    \A k \in 1..RowCount(traced.before, instr) :
                        trace.witness[instr][i][k] = traced.before[instr][i][k]

\* pad_dummy filled a step whose first row and last row differed.
C29_Witness ==
    /\ traced.op = "pad_dummy"
    /\ RowCount(traced.before, traced.step) = 2
    /\ traced.before[traced.step][1][1] # traced.before[traced.step][1][2]
    /\ traced.returned = 1

---------------------------------------------------------------------------
(***************************************************************************)
(* Properties of the foreign field multiplication test helpers, checked     *)
(* under SpecFf.                                                            *)
(***************************************************************************)

\* C24: rand_foreign_field_element_with_bound_overflows, for a modulus f
\* with negated modulus f' = 2^t - f in two compact limbs (f'0, f'1),
\* returns Err when f < 2^(2L) and Err when f'0 = 0; for every other modulus
\* it returns Ok(x) with x < f, x0 + f'0 >= 2^(2L) and x1 + f'1 < 2^L.
C24_BoundOverflows ==
    ff.op = "rand_foreign_field_element_with_bound_overflows" =>
        LET f == ff.input[1]
            f0 == (TwoToLimbs(3) - f) % TwoToLimbs(2)
            f1 == (TwoToLimbs(3) - f) \div TwoToLimbs(2)
            x == ff.output.value
        IN  IF f < TwoToLimbs(2) \/ f0 = 0
            THEN ff.output.kind = "Err"
            ELSE /\ ff.output.kind = "Ok"
                 /\ x < f
                 /\ (x % TwoToLimbs(2)) + f0 >= TwoToLimbs(2)
                 /\ (x \div TwoToLimbs(2)) + f1 < TwoToLimbs(1)

\* Whenever the call returns Ok(x), x is below f, its low compact limb
\* overflows and its high limb does not.
RandOkWithinBounds ==
    (/\ ff.op = "rand_foreign_field_element_with_bound_overflows"
     /\ ff.output.kind = "Ok") =>
        LET f == ff.input[1]
            f0 == (TwoToLimbs(3) - f) % TwoToLimbs(2)
            f1 == (TwoToLimbs(3) - f) \div TwoToLimbs(2)
            x == ff.output.value
        IN  /\ x < f
            /\ (x % TwoToLimbs(2)) + f0 >= TwoToLimbs(2)
            /\ (x \div TwoToLimbs(2)) + f1 < TwoToLimbs(1)

\* The rows of a verification on which verify_witness returns an error.
Failing(results) == {row \in DOMAIN results : results[row].kind = "Err"}

=============================================================================
